---- MODULE Spec2Model ----
(***************************************************************************)
(* Room lifecycle, matchmaking and confirmation-timeout protocol of the    *)
(* Thaasbai multiplayer server (src/server.py).  Every socket handler is   *)
(* an operator from the server's global dictionaries (the "world") to the  *)
(* world after the handler returned; an action commits one handler call.   *)
(***************************************************************************)
EXTENDS Integers, Sequences, FiniteSets, TLC

\* ---------------------------------------------------------------- bounds
NumSids == 5        \* connections (request.sid values) that ever connect
MaxRoomIds == 2     \* size of the pool generate_room_code draws from
MaxPending == 2     \* confirmation timers that may be pending at once
MaxPayload == 1     \* distinct opaque gameState / hands payloads
MaxEvents == 2      \* handler runs explored after each scripted history
MaxThreads == 2     \* threads in flight at once

\* ------------------------------------------------------ program constants
MatchSize == 4      \* players taken from the queue per quick match
RoomSlots == 4      \* positions scanned by handle_join_room
DefaultMaxPlayers == 4
MinMaxPlayers == 2
MinPlayersDigu == 2

Sids == 1..NumSids
RoomIds == 1..MaxRoomIds
Positions == 0..(RoomSlots - 1)
Payloads == 1..MaxPayload
None == 0
MaxPlayersInputs == MinMaxPlayers..DefaultMaxPlayers

VARIABLES
    rooms,                   \* room id -> Dhiha Ei room
    digu_rooms,              \* room id -> Digu room
    player_sessions,         \* sid -> [roomId, position, gameType]
    matchmaking_queue,       \* sequence of sids (Dhiha Ei)
    digu_matchmaking_queue,  \* sequence of sids (Digu)
    match_timeouts,          \* room ids with an entry in the timeout table
    timers,                  \* room id -> started, not cancelled, not fired timers
    live,                    \* connected sids
    emits,                   \* messages emitted by the last handler, in order
    events,                  \* handler runs so far, after the scripted history
    script,                  \* handler calls of the scripted history still to run
    threads                  \* handler and timer threads in flight, with their locals

vars == <<rooms, digu_rooms, player_sessions, matchmaking_queue,
          digu_matchmaking_queue, match_timeouts, timers, live, emits, events, script,
          threads>>

\* ---------------------------------------------------------------- helpers
Range(f) == {f[x] : x \in DOMAIN f}

Put(f, k, v) == [x \in (DOMAIN f) \cup {k} |-> IF x = k THEN v ELSE f[x]]

Drop(f, k) == [x \in (DOMAIN f) \ {k} |-> f[x]]

Without(q, sid) == SelectSeq(q, LAMBDA x : x # sid)

Min(S) == CHOOSE x \in S : \A y \in S : x <= y

\* Destinations of an emit: one connection, a socket room, or a socket room
\* without the calling connection (include_self=False).
ToSid(sid) == <<"sid", sid>>

ToRoom(room_id) == <<"room", room_id>>

ToOthers(room_id, sid) == <<"others", room_id, sid>>

Msg(ev, to, msg, val) == [ev |-> ev, to |-> to, msg |-> msg, val |-> val]

Err(sid, msg) == Msg("error", ToSid(sid), msg, 0)

Say(w, m) == [w EXCEPT !.emits = Append(@, m)]

World == [rooms |-> rooms, digu_rooms |-> digu_rooms,
          player_sessions |-> player_sessions,
          matchmaking_queue |-> matchmaking_queue,
          digu_matchmaking_queue |-> digu_matchmaking_queue,
          match_timeouts |-> match_timeouts, timers |-> timers,
          emits |-> <<>>]

\* The registries and the messages become those of w.
Store(w) ==
    /\ rooms' = w.rooms
    /\ digu_rooms' = w.digu_rooms
    /\ player_sessions' = w.player_sessions
    /\ matchmaking_queue' = w.matchmaking_queue
    /\ digu_matchmaking_queue' = w.digu_matchmaking_queue
    /\ match_timeouts' = w.match_timeouts
    /\ timers' = w.timers
    /\ emits' = w.emits

\* A handler that runs from its first to its last statement with no other
\* thread in flight.
Commit(w) ==
    /\ Store(w)
    /\ UNCHANGED threads

\* ------------------------------------------------------------ data model
Session(room_id, position, game_type) ==
    [roomId |-> room_id, position |-> position, gameType |-> game_type]

\* A player slot.  Slots of private rooms carry no 'confirmed' key; every
\* read goes through .get('confirmed', False), so the key reads FALSE.
Slot(sid, ready, confirmed) ==
    [oderId |-> sid, ready |-> ready, connected |-> TRUE, confirmed |-> confirmed]

\* 'order' is the insertion order of the players dict.  Only the timeout
\* callback iterates the dict in order, and only for a confirming room, so
\* the order is kept while the room is confirming and is <<>> otherwise.
\* 'matched' is history, not program state: the sids of match_players in the
\* order they were taken from the queue, kept as long as 'order' is.
NewRoom(status, quick, players, order, matched) ==
    [status |-> status, playerCount |-> Cardinality(DOMAIN players),
     isQuickMatch |-> quick, players |-> players, order |-> order,
     matched |-> matched,
     gameState |-> None, hands |-> None, readyForRound |-> {}]

NewDiguRoom(quick, max_players, players) ==
    [status |-> "waiting", playerCount |-> Cardinality(DOMAIN players),
     maxPlayers |-> max_players, isQuickMatch |-> quick, players |-> players,
     gameState |-> None, hands |-> None]

\* RemoveSlot without the recomputation of playerCount.
RemoveSlot_StaleCount(room, position) ==
    IF "order" \in DOMAIN room
    THEN [room EXCEPT !.players = Drop(@, position), !.order = Without(@, position)]
    ELSE [room EXCEPT !.players = Drop(@, position)]

\* del room['players'][position]; playerCount = len(room['players'])
RemoveSlot(room, position) ==
    LET players == Drop(room.players, position) IN
    IF "order" \in DOMAIN room
    THEN [room EXCEPT !.players = players,
                      !.playerCount = Cardinality(DOMAIN players),
                      !.order = Without(@, position)]
    ELSE [room EXCEPT !.players = players,
                      !.playerCount = Cardinality(DOMAIN players)]

\* ------------------------------------------------------- room handlers
handle_create_room(w, sid, room_id) ==
    LET room == NewRoom("waiting", FALSE, 0 :> Slot(sid, FALSE, FALSE), <<>>, <<>>)
        w1 == [w EXCEPT !.rooms = Put(@, room_id, room),
                        !.player_sessions = Put(@, sid, Session(room_id, 0, "dhihaei"))]
    IN Say(w1, Msg("room_created", ToSid(sid), "", 0))

\* FirstFree scanning the positions from the top.
FirstFree_Highest(players, n) ==
    IF \E i \in 0..(n - 1) : i \notin DOMAIN players
    THEN CHOOSE i \in 0..(n - 1) :
            i \notin DOMAIN players /\ \A j \in 0..(n - 1) : j \notin DOMAIN players => j <= i
    ELSE -1

\* FirstFree scanning one position too many.
FirstFree_Unbounded(players, n) ==
    IF \E i \in 0..n : i \notin DOMAIN players
    THEN Min({i \in 0..n : i \notin DOMAIN players})
    ELSE -1

\* The first free index of range(4), or -1 for None.
FirstFree(players, n) ==
    IF \E i \in 0..(n - 1) : i \notin DOMAIN players
    THEN Min({i \in 0..(n - 1) : i \notin DOMAIN players})
    ELSE -1

\* handle_join_room that gives the slot of a dropped player of a playing
\* room to the joiner.
handle_join_room_Replaces(w, sid, room_id) ==
    IF room_id \notin DOMAIN w.rooms THEN Say(w, Err(sid, "Room not found"))
    ELSE LET room == w.rooms[room_id]
             dropped == {p \in DOMAIN room.players : ~room.players[p].connected}
             position == FirstFree(room.players, RoomSlots)
         IN
         IF room.status = "playing" /\ dropped # {}
         THEN Say([w EXCEPT
                     !.rooms[room_id].players[Min(dropped)] = Slot(sid, TRUE, FALSE),
                     !.player_sessions = Put(@, sid, Session(room_id, Min(dropped), "dhihaei"))],
                  Msg("room_joined", ToSid(sid), "", Min(dropped)))
         ELSE IF room.status # "waiting" THEN Say(w, Err(sid, "Game already in progress"))
         ELSE IF position = -1 THEN Say(w, Err(sid, "Room is full"))
         ELSE LET players == Put(room.players, position, Slot(sid, FALSE, FALSE))
                  w1 == [w EXCEPT
                           !.rooms[room_id].players = players,
                           !.rooms[room_id].playerCount = Cardinality(DOMAIN players),
                           !.player_sessions = Put(@, sid, Session(room_id, position, "dhihaei"))]
              IN Say(Say(w1, Msg("room_joined", ToSid(sid), "", position)),
                     Msg("players_changed", ToOthers(room_id, sid), "", 0))

\* handle_join_room without the check of the room's status.
handle_join_room_AnyStatus(w, sid, room_id) ==
    IF room_id \notin DOMAIN w.rooms THEN Say(w, Err(sid, "Room not found"))
    ELSE LET room == w.rooms[room_id]
             position == FirstFree(room.players, RoomSlots)
         IN
         IF position = -1 THEN Say(w, Err(sid, "Room is full"))
         ELSE LET players == Put(room.players, position, Slot(sid, FALSE, FALSE))
                  w1 == [w EXCEPT
                           !.rooms[room_id].players = players,
                           !.rooms[room_id].playerCount = Cardinality(DOMAIN players),
                           !.player_sessions = Put(@, sid, Session(room_id, position, "dhihaei"))]
              IN Say(Say(w1, Msg("room_joined", ToSid(sid), "", position)),
                     Msg("players_changed", ToOthers(room_id, sid), "", 0))

handle_join_room(w, sid, room_id) ==
    IF room_id \notin DOMAIN w.rooms THEN Say(w, Err(sid, "Room not found"))
    ELSE LET room == w.rooms[room_id]
             position == FirstFree(room.players, RoomSlots)
         IN
         IF room.status # "waiting" THEN Say(w, Err(sid, "Game already in progress"))
         ELSE IF position = -1 THEN Say(w, Err(sid, "Room is full"))
         ELSE LET players == Put(room.players, position, Slot(sid, FALSE, FALSE))
                  w1 == [w EXCEPT
                           !.rooms[room_id].players = players,
                           !.rooms[room_id].playerCount = Cardinality(DOMAIN players),
                           !.player_sessions = Put(@, sid, Session(room_id, position, "dhihaei"))]
              IN Say(Say(w1, Msg("room_joined", ToSid(sid), "", position)),
                     Msg("players_changed", ToOthers(room_id, sid), "", 0))

\* handle_leave_room without the deletion of a room left empty.
handle_leave_room_KeepsEmpty(w, sid) ==
    IF sid \notin DOMAIN w.player_sessions THEN w
    ELSE LET session == w.player_sessions[sid]
             room_id == session.roomId
             position == session.position
             w1 == IF room_id \in DOMAIN w.rooms /\ position \in DOMAIN w.rooms[room_id].players
                   THEN LET room == w.rooms[room_id]
                            is_playing == room.status = "playing"
                            left == RemoveSlot(room, position)
                        IN IF DOMAIN left.players = {}
                           THEN [w EXCEPT !.rooms[room_id] = left]
                           ELSE Say([w EXCEPT !.rooms[room_id] = left],
                                    IF is_playing
                                    THEN Msg("player_left_game", ToRoom(room_id), "left", position)
                                    ELSE Msg("players_changed", ToRoom(room_id), "", 0))
                   ELSE w
         IN Say([w1 EXCEPT !.player_sessions = Drop(@, sid)],
                Msg("left_room", ToSid(sid), "", 0))

\* handle_leave_room keeping the slot of a playing room, marked
\* connected:false.
handle_leave_room_MarksDropped(w, sid) ==
    IF sid \notin DOMAIN w.player_sessions THEN w
    ELSE LET session == w.player_sessions[sid]
             room_id == session.roomId
             position == session.position
             w1 == IF room_id \in DOMAIN w.rooms /\ position \in DOMAIN w.rooms[room_id].players
                   THEN LET room == w.rooms[room_id]
                            is_playing == room.status = "playing"
                            left == IF is_playing
                                    THEN [room EXCEPT !.players[position].connected = FALSE]
                                    ELSE RemoveSlot(room, position)
                        IN IF DOMAIN left.players = {}
                           THEN [w EXCEPT !.rooms = Drop(@, room_id)]
                           ELSE Say([w EXCEPT !.rooms[room_id] = left],
                                    IF is_playing
                                    THEN Msg("player_left_game", ToRoom(room_id), "left", position)
                                    ELSE Msg("players_changed", ToRoom(room_id), "", 0))
                   ELSE w
         IN Say([w1 EXCEPT !.player_sessions = Drop(@, sid)],
                Msg("left_room", ToSid(sid), "", 0))

handle_leave_room(w, sid) ==
    IF sid \notin DOMAIN w.player_sessions THEN w
    ELSE LET session == w.player_sessions[sid]
             room_id == session.roomId
             position == session.position
             w1 == IF room_id \in DOMAIN w.rooms /\ position \in DOMAIN w.rooms[room_id].players
                   THEN LET room == w.rooms[room_id]
                            is_playing == room.status = "playing"
                            left == RemoveSlot(room, position)
                        IN IF DOMAIN left.players = {}
                           THEN [w EXCEPT !.rooms = Drop(@, room_id)]
                           ELSE Say([w EXCEPT !.rooms[room_id] = left],
                                    IF is_playing
                                    THEN Msg("player_left_game", ToRoom(room_id), "left", position)
                                    ELSE Msg("players_changed", ToRoom(room_id), "", 0))
                   ELSE w
         IN Say([w1 EXCEPT !.player_sessions = Drop(@, sid)],
                Msg("left_room", ToSid(sid), "", 0))

handle_set_ready(w, sid, ready) ==
    IF sid \notin DOMAIN w.player_sessions THEN w
    ELSE LET session == w.player_sessions[sid]
             room_id == session.roomId
             position == session.position
         IN IF room_id \in DOMAIN w.rooms /\ position \in DOMAIN w.rooms[room_id].players
            THEN Say([w EXCEPT !.rooms[room_id].players[position].ready = ready],
                     Msg("players_changed", ToRoom(room_id), "", 0))
            ELSE w

\* Team A: positions 0, 2 | Team B: positions 1, 3
TargetPositions(from_position) ==
    IF from_position \in {0, 2} THEN <<1, 3>> ELSE <<0, 2>>

\* The sessions the rebinding loops of handle_swap_player look at.
SessionsAt(sessions, room_id, position) ==
    {s \in DOMAIN sessions :
        sessions[s].roomId = room_id /\ sessions[s].position = position}

\* handle_swap_player without the check that the caller is the host.
handle_swap_player_AnyCaller(w, sid, from_position, first) ==
    IF sid \notin DOMAIN w.player_sessions THEN w
    ELSE LET session == w.player_sessions[sid]
             room_id == session.roomId
         IN
         IF room_id \notin DOMAIN w.rooms THEN w
         ELSE LET room == w.rooms[room_id]
                  players == room.players
                  targets == TargetPositions(from_position)
                  empty == {i \in 1..2 : targets[i] \notin DOMAIN players}
              IN
              IF from_position \notin DOMAIN players
              THEN Say(w, Err(sid, "No player in that position"))
              ELSE LET target_position == IF empty # {} THEN targets[Min(empty)] ELSE targets[1]
                       moved == Put(Drop(players, from_position), target_position,
                                    players[from_position])
                       swapped == [players EXCEPT ![target_position] = players[from_position],
                                                  ![from_position] = players[target_position]]
                       sessions ==
                           IF empty # {}
                           THEN [s \in DOMAIN w.player_sessions |->
                                   IF s = first /\ s \in SessionsAt(w.player_sessions, room_id, from_position)
                                   THEN [w.player_sessions[s] EXCEPT !.position = target_position]
                                   ELSE w.player_sessions[s]]
                           ELSE [s \in DOMAIN w.player_sessions |->
                                   IF s \in SessionsAt(w.player_sessions, room_id, from_position)
                                   THEN [w.player_sessions[s] EXCEPT !.position = target_position]
                                   ELSE IF s \in SessionsAt(w.player_sessions, room_id, target_position)
                                   THEN [w.player_sessions[s] EXCEPT !.position = from_position]
                                   ELSE w.player_sessions[s]]
                       order == IF room.order = <<>> THEN <<>>
                                ELSE IF empty # {}
                                THEN Append(Without(room.order, from_position), target_position)
                                ELSE room.order
                       w1 == [w EXCEPT !.rooms[room_id].players =
                                           IF empty # {} THEN moved ELSE swapped,
                                       !.rooms[room_id].order = order,
                                       !.player_sessions = sessions]
                   IN Say(Say(w1, Msg("players_changed", ToRoom(room_id), "", 0)),
                          Msg("position_changed", ToRoom(room_id), "", target_position))

\* 'first' is the session the move branch's loop meets first (it breaks
\* after one match); the iteration order of player_sessions is not modelled,
\* so the caller draws it from SessionsAt.
handle_swap_player(w, sid, from_position, first) ==
    IF sid \notin DOMAIN w.player_sessions THEN w
    ELSE LET session == w.player_sessions[sid]
             room_id == session.roomId
         IN
         IF session.position # 0 THEN Say(w, Err(sid, "Only host can assign teams"))
         ELSE IF room_id \notin DOMAIN w.rooms THEN w
         ELSE LET room == w.rooms[room_id]
                  players == room.players
                  targets == TargetPositions(from_position)
                  empty == {i \in 1..2 : targets[i] \notin DOMAIN players}
              IN
              IF from_position \notin DOMAIN players
              THEN Say(w, Err(sid, "No player in that position"))
              ELSE LET target_position == IF empty # {} THEN targets[Min(empty)] ELSE targets[1]
                       moved == Put(Drop(players, from_position), target_position,
                                    players[from_position])
                       swapped == [players EXCEPT ![target_position] = players[from_position],
                                                  ![from_position] = players[target_position]]
                       sessions ==
                           IF empty # {}
                           THEN [s \in DOMAIN w.player_sessions |->
                                   IF s = first /\ s \in SessionsAt(w.player_sessions, room_id, from_position)
                                   THEN [w.player_sessions[s] EXCEPT !.position = target_position]
                                   ELSE w.player_sessions[s]]
                           ELSE [s \in DOMAIN w.player_sessions |->
                                   IF s \in SessionsAt(w.player_sessions, room_id, from_position)
                                   THEN [w.player_sessions[s] EXCEPT !.position = target_position]
                                   ELSE IF s \in SessionsAt(w.player_sessions, room_id, target_position)
                                   THEN [w.player_sessions[s] EXCEPT !.position = from_position]
                                   ELSE w.player_sessions[s]]
                       order == IF room.order = <<>> THEN <<>>
                                ELSE IF empty # {}
                                THEN Append(Without(room.order, from_position), target_position)
                                ELSE room.order
                       w1 == [w EXCEPT !.rooms[room_id].players =
                                           IF empty # {} THEN moved ELSE swapped,
                                       !.rooms[room_id].order = order,
                                       !.player_sessions = sessions]
                   IN Say(Say(w1, Msg("players_changed", ToRoom(room_id), "", 0)),
                          Msg("position_changed", ToRoom(room_id), "", target_position))

AllReady(players) == \A p \in DOMAIN players : players[p].ready

\* handle_start_game with readiness checked before the number of players.
handle_start_game_ReadyFirst(w, sid, gameState, hands) ==
    IF sid \notin DOMAIN w.player_sessions THEN w
    ELSE LET session == w.player_sessions[sid]
             room_id == session.roomId
         IN
         IF session.position # 0 THEN Say(w, Err(sid, "Only host can start the game"))
         ELSE IF room_id \notin DOMAIN w.rooms THEN w
         ELSE LET room == w.rooms[room_id] IN
              IF ~AllReady(room.players)
              THEN Say(w, Err(sid, "All players must be ready"))
              ELSE IF Cardinality(DOMAIN room.players) # RoomSlots
              THEN Say(w, Err(sid, "Need 4 players to start"))
              ELSE Say([w EXCEPT !.rooms[room_id].status = "playing",
                                 !.rooms[room_id].order = <<>>,
                                 !.rooms[room_id].matched = <<>>,
                                 !.rooms[room_id].gameState = gameState,
                                 !.rooms[room_id].hands = hands],
                       Msg("game_started", ToRoom(room_id), "", gameState))

handle_start_game(w, sid, gameState, hands) ==
    IF sid \notin DOMAIN w.player_sessions THEN w
    ELSE LET session == w.player_sessions[sid]
             room_id == session.roomId
         IN
         IF session.position # 0 THEN Say(w, Err(sid, "Only host can start the game"))
         ELSE IF room_id \notin DOMAIN w.rooms THEN w
         ELSE LET room == w.rooms[room_id] IN
              IF Cardinality(DOMAIN room.players) # RoomSlots
              THEN Say(w, Err(sid, "Need 4 players to start"))
              ELSE IF ~AllReady(room.players)
              THEN Say(w, Err(sid, "All players must be ready"))
              ELSE Say([w EXCEPT !.rooms[room_id].status = "playing",
                                 !.rooms[room_id].order = <<>>,
                                 !.rooms[room_id].matched = <<>>,
                                 !.rooms[room_id].gameState = gameState,
                                 !.rooms[room_id].hands = hands],
                       Msg("game_started", ToRoom(room_id), "", gameState))

\* ------------------------------------------------------------ game relay
\* The payload's position is the session's position; the message keeps the
\* card.  Neither the room nor the position is looked up.
handle_card_played(w, sid, card) ==
    IF sid \notin DOMAIN w.player_sessions THEN w
    ELSE Say(w, Msg("remote_card_played",
                    ToOthers(w.player_sessions[sid].roomId, sid), "", card))

handle_update_game_state(w, sid, gameState) ==
    IF sid \notin DOMAIN w.player_sessions THEN w
    ELSE LET room_id == w.player_sessions[sid].roomId IN
         IF room_id \in DOMAIN w.rooms
         THEN Say([w EXCEPT !.rooms[room_id].gameState = gameState],
                  Msg("game_state_updated", ToOthers(room_id, sid), "", gameState))
         ELSE w

\* handle_new_round without the check that the caller is the host.
handle_new_round_AnyCaller(w, sid, gameState, hands) ==
    IF sid \notin DOMAIN w.player_sessions THEN w
    ELSE LET room_id == w.player_sessions[sid].roomId
         IN IF room_id \in DOMAIN w.rooms
            THEN Say([w EXCEPT !.rooms[room_id].gameState = gameState,
                               !.rooms[room_id].hands = hands],
                     Msg("round_started", ToRoom(room_id), "", gameState))
            ELSE w

handle_new_round(w, sid, gameState, hands) ==
    IF sid \notin DOMAIN w.player_sessions THEN w
    ELSE LET session == w.player_sessions[sid]
             room_id == session.roomId
         IN IF session.position # 0 THEN w
            ELSE IF room_id \in DOMAIN w.rooms
            THEN Say([w EXCEPT !.rooms[room_id].gameState = gameState,
                               !.rooms[room_id].hands = hands],
                     Msg("round_started", ToRoom(room_id), "", gameState))
            ELSE w

\* handle_ready_for_round without the reset of the acknowledgements.
handle_ready_for_round_NoReset(w, sid) ==
    IF sid \notin DOMAIN w.player_sessions THEN w
    ELSE LET session == w.player_sessions[sid]
             room_id == session.roomId
             position == session.position
         IN IF room_id \notin DOMAIN w.rooms THEN w
            ELSE LET acks == w.rooms[room_id].readyForRound \cup {position}
                     w1 == [w EXCEPT !.rooms[room_id].readyForRound = acks]
                 IN IF Cardinality(acks) >= RoomSlots
                    THEN Say(w1, Msg("all_ready_for_round", ToRoom(room_id), "", 0))
                    ELSE w1

\* readyForRound is a dict position -> True, so it is the set of its keys; a
\* room without the key is a room with the empty dict.
handle_ready_for_round(w, sid) ==
    IF sid \notin DOMAIN w.player_sessions THEN w
    ELSE LET session == w.player_sessions[sid]
             room_id == session.roomId
             position == session.position
         IN IF room_id \notin DOMAIN w.rooms THEN w
            ELSE LET acks == w.rooms[room_id].readyForRound \cup {position}
                 IN IF Cardinality(acks) >= RoomSlots
                    THEN Say([w EXCEPT !.rooms[room_id].readyForRound = {}],
                             Msg("all_ready_for_round", ToRoom(room_id), "", 0))
                    ELSE [w EXCEPT !.rooms[room_id].readyForRound = acks]

\* ------------------------------------------------------------ matchmaking
remove_from_queue(w, sid) ==
    [w EXCEPT !.matchmaking_queue = Without(@, sid)]

\* The codes generate_room_code can return: any code that is no key of rooms.
generate_room_code(w) == RoomIds \ DOMAIN w.rooms

\* The outcomes of random.shuffle([0, 1, 2, 3]).
Shuffles ==
    {p \in [1..MatchSize -> Positions] : \A i, j \in 1..MatchSize : i # j => p[i] # p[j]}

\* for player in matchmaking_queue: emit('queue_update', ...)
broadcast_queue_status(w) ==
    LET q == w.matchmaking_queue
        count == Len(q)
    IN [w EXCEPT !.emits = @ \o [i \in 1..count |->
                Msg("queue_update", ToSid(q[i]), "", MatchSize - count)]]

\* The last index at which sid stands in match_players: the loop's later
\* assignment to player_sessions[sid] wins.
LastIndex(match_players, sid) ==
    CHOOSE i \in 1..Len(match_players) :
        /\ match_players[i] = sid
        /\ \A j \in 1..Len(match_players) : match_players[j] = sid => j <= i

\* MatchFormed without the timer of the match.
MatchFormed_NoTimer(w, room_id, positions) ==
    LET q == w.matchmaking_queue
        match_players == SubSeq(q, 1, MatchSize)
        players == [p \in Positions |->
                      Slot(match_players[CHOOSE i \in 1..MatchSize : positions[i] = p],
                           FALSE, FALSE)]
        matched == Range(match_players)
        sessions == [s \in (DOMAIN w.player_sessions) \cup matched |->
                       IF s \in matched
                       THEN Session(room_id, positions[LastIndex(match_players, s)], "dhihaei")
                       ELSE w.player_sessions[s]]
    IN [w EXCEPT
          !.matchmaking_queue = SubSeq(q, MatchSize + 1, Len(q)),
          !.rooms = Put(@, room_id, NewRoom("confirming", TRUE, players, positions, match_players)),
          !.player_sessions = sessions,
          !.emits = @ \o [i \in 1..MatchSize |->
                Msg("match_found", ToSid(match_players[i]), "",
                    sessions[match_players[i]].position)]]

\* The room of a new match, for one generated code and one shuffle.
MatchFormed(w, room_id, positions) ==
    LET q == w.matchmaking_queue
        match_players == SubSeq(q, 1, MatchSize)
        players == [p \in Positions |->
                      Slot(match_players[CHOOSE i \in 1..MatchSize : positions[i] = p],
                           FALSE, FALSE)]
        matched == Range(match_players)
        sessions == [s \in (DOMAIN w.player_sessions) \cup matched |->
                       IF s \in matched
                       THEN Session(room_id, positions[LastIndex(match_players, s)], "dhihaei")
                       ELSE w.player_sessions[s]]
    IN [w EXCEPT
          !.matchmaking_queue = SubSeq(q, MatchSize + 1, Len(q)),
          !.rooms = Put(@, room_id, NewRoom("confirming", TRUE, players, positions, match_players)),
          !.player_sessions = sessions,
          !.emits = @ \o [i \in 1..MatchSize |->
                Msg("match_found", ToSid(match_players[i]), "",
                    sessions[match_players[i]].position)],
          !.timers[room_id] = @ + 1,
          !.match_timeouts = @ \cup {room_id}]

\* The worlds check_and_start_match can leave behind.
check_and_start_match(w) ==
    UNION {IF Len(x.matchmaking_queue) >= MatchSize
           THEN {MatchFormed(x, room_id, positions) :
                   room_id \in generate_room_code(x), positions \in Shuffles}
           ELSE {x} : x \in {w}}

\* Positions of a room in dict order whose slot has the given 'confirmed'.
InOrder(room, confirmed) ==
    SelectSeq(room.order, LAMBDA p : room.players[p].confirmed = confirmed)

\* The timer callback without its retry of match formation.
handle_confirmation_timeout_NoRetry(w, room_id) ==
    LET done(x) == [x EXCEPT !.match_timeouts = @ \ {room_id}] IN
    IF room_id \in DOMAIN w.rooms /\ w.rooms[room_id].status = "confirming"
    THEN LET room == w.rooms[room_id]
             unconfirmed == InOrder(room, FALSE)
             confirmed == InOrder(room, TRUE)
             owners == {room.players[p].oderId : p \in DOMAIN room.players}
             w1 == [w EXCEPT
                      !.emits = [i \in 1..Len(unconfirmed) |->
                                   Msg("match_timeout", ToSid(room.players[unconfirmed[i]].oderId),
                                       "You did not confirm in time", 0)]
                                \o [i \in 1..Len(confirmed) |->
                                   Msg("match_cancelled", ToSid(room.players[confirmed[i]].oderId),
                                       "requeued", 1)],
                      !.player_sessions = [s \in (DOMAIN @) \ owners |-> @[s]],
                      !.matchmaking_queue = @ \o [i \in 1..Len(confirmed) |->
                                   room.players[confirmed[i]].oderId],
                      !.rooms = Drop(@, room_id)]
         IN {done(broadcast_queue_status(w1))}
    ELSE {done(w)}

\* The timer callback of the match in room_id, run to its end.
\* handle_confirmation_timeout putting the confirmed players at the head of
\* the queue.
handle_confirmation_timeout_RequeuesFirst(w, room_id) ==
    LET done(x) == [x EXCEPT !.match_timeouts = @ \ {room_id}] IN
    IF room_id \in DOMAIN w.rooms /\ w.rooms[room_id].status = "confirming"
    THEN LET room == w.rooms[room_id]
             unconfirmed == InOrder(room, FALSE)
             confirmed == InOrder(room, TRUE)
             owners == {room.players[p].oderId : p \in DOMAIN room.players}
             w1 == [w EXCEPT
                      !.emits = [i \in 1..Len(unconfirmed) |->
                                   Msg("match_timeout", ToSid(room.players[unconfirmed[i]].oderId),
                                       "You did not confirm in time", 0)]
                                \o [i \in 1..Len(confirmed) |->
                                   Msg("match_cancelled", ToSid(room.players[confirmed[i]].oderId),
                                       "requeued", 1)],
                      !.player_sessions = [s \in (DOMAIN @) \ owners |-> @[s]],
                      !.matchmaking_queue = [i \in 1..Len(confirmed) |->
                                   room.players[confirmed[i]].oderId] \o @,
                      !.rooms = Drop(@, room_id)]
         IN {done(x) : x \in check_and_start_match(broadcast_queue_status(w1))}
    ELSE {done(w)}

\* The timer callback without the test that the room is still confirming.
handle_confirmation_timeout_NoRecheck(w, room_id) ==
    LET done(x) == [x EXCEPT !.match_timeouts = @ \ {room_id}] IN
    IF room_id \in DOMAIN w.rooms
    THEN LET room == w.rooms[room_id]
             unconfirmed == InOrder(room, FALSE)
             confirmed == InOrder(room, TRUE)
             owners == {room.players[p].oderId : p \in DOMAIN room.players}
             w1 == [w EXCEPT
                      !.emits = [i \in 1..Len(unconfirmed) |->
                                   Msg("match_timeout", ToSid(room.players[unconfirmed[i]].oderId),
                                       "You did not confirm in time", 0)]
                                \o [i \in 1..Len(confirmed) |->
                                   Msg("match_cancelled", ToSid(room.players[confirmed[i]].oderId),
                                       "requeued", 1)],
                      !.player_sessions = [s \in (DOMAIN @) \ owners |-> @[s]],
                      !.matchmaking_queue = @ \o [i \in 1..Len(confirmed) |->
                                   room.players[confirmed[i]].oderId],
                      !.rooms = Drop(@, room_id)]
         IN {done(x) : x \in check_and_start_match(broadcast_queue_status(w1))}
    ELSE {done(w)}

handle_confirmation_timeout(w, room_id) ==
    LET done(x) == [x EXCEPT !.match_timeouts = @ \ {room_id}] IN
    IF room_id \in DOMAIN w.rooms /\ w.rooms[room_id].status = "confirming"
    THEN LET room == w.rooms[room_id]
             unconfirmed == InOrder(room, FALSE)
             confirmed == InOrder(room, TRUE)
             owners == {room.players[p].oderId : p \in DOMAIN room.players}
             w1 == [w EXCEPT
                      !.emits = [i \in 1..Len(unconfirmed) |->
                                   Msg("match_timeout", ToSid(room.players[unconfirmed[i]].oderId),
                                       "You did not confirm in time", 0)]
                                \o [i \in 1..Len(confirmed) |->
                                   Msg("match_cancelled", ToSid(room.players[confirmed[i]].oderId),
                                       "requeued", 1)],
                      !.player_sessions = [s \in (DOMAIN @) \ owners |-> @[s]],
                      !.matchmaking_queue = @ \o [i \in 1..Len(confirmed) |->
                                   room.players[confirmed[i]].oderId],
                      !.rooms = Drop(@, room_id)]
         IN {done(x) : x \in check_and_start_match(broadcast_queue_status(w1))}
    ELSE {done(w)}

\* The messages of the callback's two loops over a confirming room, each with
\* the world at the moment it is sent.  The loop over the unconfirmed emits
\* match_timeout and then deletes the player's session; the loop over the
\* confirmed emits match_cancelled, then deletes the session, then appends
\* the player to the queue.  The room is deleted after both loops.
confirmation_timeout_emissions(w, room_id) ==
    LET room == w.rooms[room_id]
        unconfirmed == InOrder(room, FALSE)
        confirmed == InOrder(room, TRUE)
        gone == unconfirmed \o confirmed
        owner(p) == room.players[p].oderId
        \* the world once the first n iterations of the two loops are done
        after(n) ==
            LET left == {owner(gone[i]) : i \in 1..n}
                requeued == IF n > Len(unconfirmed)
                            THEN [i \in 1..(n - Len(unconfirmed)) |-> owner(confirmed[i])]
                            ELSE <<>>
            IN [w EXCEPT !.player_sessions = [s \in (DOMAIN @) \ left |-> @[s]],
                         !.matchmaking_queue = @ \o requeued]
    IN [i \in 1..Len(gone) |->
          [m |-> IF i <= Len(unconfirmed)
                 THEN Msg("match_timeout", ToSid(owner(gone[i])),
                          "You did not confirm in time", 0)
                 ELSE Msg("match_cancelled", ToSid(owner(gone[i])), "requeued", 1),
           at |-> after(i - 1)]]

\* handle_confirm_match ignoring a caller without session or without room.
handle_confirm_match_Silent(w, sid) ==
    IF sid \notin DOMAIN w.player_sessions THEN w
    ELSE LET session == w.player_sessions[sid]
             room_id == session.roomId
             position == session.position
         IN
         IF room_id \notin DOMAIN w.rooms THEN w
         ELSE LET room == w.rooms[room_id] IN
              IF ~room.isQuickMatch \/ room.status # "confirming"
              THEN Say(w, Err(sid, "Not in confirmation phase"))
              ELSE IF position \notin DOMAIN room.players THEN w
              ELSE LET players == [room.players EXCEPT ![position].confirmed = TRUE,
                                                       ![position].ready = TRUE]
                       w1 == Say([w EXCEPT !.rooms[room_id].players = players],
                                 Msg("player_confirmed", ToRoom(room_id), "", position))
                       all_confirmed == \A p \in DOMAIN players : players[p].confirmed
                   IN IF all_confirmed
                      THEN Say([w1 EXCEPT
                                  !.timers[room_id] =
                                      IF room_id \in w.match_timeouts THEN @ - 1 ELSE @,
                                  !.match_timeouts = @ \ {room_id},
                                  !.rooms[room_id].status = "waiting",
                                  !.rooms[room_id].order = <<>>,
                                  !.rooms[room_id].matched = <<>>],
                               Msg("all_confirmed", ToRoom(room_id), "", 0))
                      ELSE w1

handle_confirm_match(w, sid) ==
    IF sid \notin DOMAIN w.player_sessions THEN Say(w, Err(sid, "Not in a match"))
    ELSE LET session == w.player_sessions[sid]
             room_id == session.roomId
             position == session.position
         IN
         IF room_id \notin DOMAIN w.rooms THEN Say(w, Err(sid, "Match not found"))
         ELSE LET room == w.rooms[room_id] IN
              IF ~room.isQuickMatch \/ room.status # "confirming"
              THEN Say(w, Err(sid, "Not in confirmation phase"))
              ELSE IF position \notin DOMAIN room.players THEN w
              ELSE LET players == [room.players EXCEPT ![position].confirmed = TRUE,
                                                       ![position].ready = TRUE]
                       w1 == Say([w EXCEPT !.rooms[room_id].players = players],
                                 Msg("player_confirmed", ToRoom(room_id), "", position))
                       all_confirmed == \A p \in DOMAIN players : players[p].confirmed
                   IN IF all_confirmed
                      THEN Say([w1 EXCEPT
                                  !.timers[room_id] =
                                      IF room_id \in w.match_timeouts THEN @ - 1 ELSE @,
                                  !.match_timeouts = @ \ {room_id},
                                  !.rooms[room_id].status = "waiting",
                                  !.rooms[room_id].order = <<>>,
                                  !.rooms[room_id].matched = <<>>],
                               Msg("all_confirmed", ToRoom(room_id), "", 0))
                      ELSE w1

\* handle_join_queue without its call of check_and_start_match.
handle_join_queue_NoMatch(w, sid) ==
    LET w1 == remove_from_queue(w, sid) IN
    IF sid \in DOMAIN w1.player_sessions
    THEN {Say(w1, Err(sid, "Already in a room. Leave first."))}
    ELSE LET q == Append(w1.matchmaking_queue, sid)
             needed == IF MatchSize - Len(q) > 0 THEN MatchSize - Len(q) ELSE 0
             w2 == Say([w1 EXCEPT !.matchmaking_queue = q],
                       Msg("queue_joined", ToSid(sid), "", needed))
         IN {broadcast_queue_status(w2)}

\* handle_join_queue with the room binding checked before the caller's
\* earlier entry is removed.
handle_join_queue_ChecksFirst(w, sid) ==
    IF sid \in DOMAIN w.player_sessions
    THEN {Say(w, Err(sid, "Already in a room. Leave first."))}
    ELSE LET w1 == remove_from_queue(w, sid)
             q == Append(w1.matchmaking_queue, sid)
             needed == IF MatchSize - Len(q) > 0 THEN MatchSize - Len(q) ELSE 0
             w2 == Say([w1 EXCEPT !.matchmaking_queue = q],
                       Msg("queue_joined", ToSid(sid), "", needed))
         IN check_and_start_match(broadcast_queue_status(w2))

handle_join_queue(w, sid) ==
    LET w1 == remove_from_queue(w, sid) IN
    IF sid \in DOMAIN w1.player_sessions
    THEN {Say(w1, Err(sid, "Already in a room. Leave first."))}
    ELSE LET q == Append(w1.matchmaking_queue, sid)
             needed == IF MatchSize - Len(q) > 0 THEN MatchSize - Len(q) ELSE 0
             w2 == Say([w1 EXCEPT !.matchmaking_queue = q],
                       Msg("queue_joined", ToSid(sid), "", needed))
         IN check_and_start_match(broadcast_queue_status(w2))

\* handle_leave_queue answering a caller that was not queued too.
handle_leave_queue_AlwaysAnswers(w, sid) ==
    broadcast_queue_status(Say(remove_from_queue(w, sid),
                               Msg("queue_left", ToSid(sid), "", 0)))

handle_leave_queue(w, sid) ==
    LET was_in_queue == sid \in Range(w.matchmaking_queue)
        w1 == remove_from_queue(w, sid)
    IN IF was_in_queue
       THEN broadcast_queue_status(Say(w1, Msg("queue_left", ToSid(sid), "", 0)))
       ELSE w1

\* ------------------------------------------------------------------ Digu
DiguSlot(sid, ready) == [oderId |-> sid, ready |-> ready, connected |-> TRUE]

ClampMaxPlayers(max_players) ==
    IF max_players < MinMaxPlayers \/ max_players > DefaultMaxPlayers
    THEN DefaultMaxPlayers ELSE max_players

handle_create_digu_room(w, sid, max_players, room_id) ==
    LET room == NewDiguRoom(FALSE, ClampMaxPlayers(max_players), 0 :> DiguSlot(sid, FALSE))
        w1 == [w EXCEPT !.digu_rooms = Put(@, room_id, room),
                        !.player_sessions = Put(@, sid, Session(room_id, 0, "digu"))]
    IN Say(w1, Msg("digu_room_created", ToSid(sid), "", 0))

handle_join_digu_room(w, sid, room_id) ==
    IF room_id \notin DOMAIN w.digu_rooms THEN Say(w, Err(sid, "Room not found"))
    ELSE LET room == w.digu_rooms[room_id]
             position == FirstFree(room.players, room.maxPlayers)
         IN
         IF room.status # "waiting" THEN Say(w, Err(sid, "Game already in progress"))
         ELSE IF position = -1 THEN Say(w, Err(sid, "Room is full"))
         ELSE LET players == Put(room.players, position, DiguSlot(sid, FALSE))
                  w1 == [w EXCEPT
                           !.digu_rooms[room_id].players = players,
                           !.digu_rooms[room_id].playerCount = Cardinality(DOMAIN players),
                           !.player_sessions = Put(@, sid, Session(room_id, position, "digu"))]
              IN Say(Say(w1, Msg("digu_room_joined", ToSid(sid), "", position)),
                     Msg("digu_players_changed", ToOthers(room_id, sid), "", 0))

\* handle_leave_digu_room answering a caller that has no session too.
handle_leave_digu_room_AlwaysAnswers(w, sid) ==
    IF sid \notin DOMAIN w.player_sessions
    THEN Say(w, Msg("digu_left_room", ToSid(sid), "", 0))
    ELSE LET session == w.player_sessions[sid]
             room_id == session.roomId
             position == session.position
             w1 == IF room_id \in DOMAIN w.digu_rooms
                      /\ position \in DOMAIN w.digu_rooms[room_id].players
                   THEN LET room == w.digu_rooms[room_id]
                            is_playing == room.status = "playing"
                            left == RemoveSlot(room, position)
                        IN IF DOMAIN left.players = {}
                           THEN [w EXCEPT !.digu_rooms = Drop(@, room_id)]
                           ELSE Say([w EXCEPT !.digu_rooms[room_id] = left],
                                    IF is_playing
                                    THEN Msg("digu_player_left", ToRoom(room_id), "left", position)
                                    ELSE Msg("digu_players_changed", ToRoom(room_id), "", 0))
                   ELSE w
         IN IF session.gameType # "digu" THEN w
            ELSE Say([w1 EXCEPT !.player_sessions = Drop(@, sid)],
                     Msg("digu_left_room", ToSid(sid), "", 0))

handle_leave_digu_room(w, sid) ==
    IF sid \notin DOMAIN w.player_sessions THEN w
    ELSE LET session == w.player_sessions[sid]
             room_id == session.roomId
             position == session.position
             w1 == IF room_id \in DOMAIN w.digu_rooms
                      /\ position \in DOMAIN w.digu_rooms[room_id].players
                   THEN LET room == w.digu_rooms[room_id]
                            is_playing == room.status = "playing"
                            left == RemoveSlot(room, position)
                        IN IF DOMAIN left.players = {}
                           THEN [w EXCEPT !.digu_rooms = Drop(@, room_id)]
                           ELSE Say([w EXCEPT !.digu_rooms[room_id] = left],
                                    IF is_playing
                                    THEN Msg("digu_player_left", ToRoom(room_id), "left", position)
                                    ELSE Msg("digu_players_changed", ToRoom(room_id), "", 0))
                   ELSE w
         IN IF session.gameType # "digu" THEN w
            ELSE Say([w1 EXCEPT !.player_sessions = Drop(@, sid)],
                     Msg("digu_left_room", ToSid(sid), "", 0))

handle_digu_set_ready(w, sid, ready) ==
    IF sid \notin DOMAIN w.player_sessions THEN w
    ELSE LET session == w.player_sessions[sid]
             room_id == session.roomId
             position == session.position
         IN IF /\ session.gameType = "digu"
               /\ room_id \in DOMAIN w.digu_rooms
               /\ position \in DOMAIN w.digu_rooms[room_id].players
            THEN Say([w EXCEPT !.digu_rooms[room_id].players[position].ready = ready],
                     Msg("digu_players_changed", ToRoom(room_id), "", 0))
            ELSE w

\* handle_start_digu_game without the minimum number of players.
handle_start_digu_game_NoMinimum(w, sid, gameState, hands) ==
    IF sid \notin DOMAIN w.player_sessions THEN w
    ELSE LET session == w.player_sessions[sid]
             room_id == session.roomId
         IN
         IF session.gameType # "digu" THEN w
         ELSE IF session.position # 0 THEN Say(w, Err(sid, "Only host can start the game"))
         ELSE IF room_id \notin DOMAIN w.digu_rooms THEN w
         ELSE LET room == w.digu_rooms[room_id] IN
              IF ~AllReady(room.players)
              THEN Say(w, Err(sid, "All players must be ready"))
              ELSE Say([w EXCEPT !.digu_rooms[room_id].status = "playing",
                                 !.digu_rooms[room_id].gameState = gameState,
                                 !.digu_rooms[room_id].hands = hands],
                       Msg("digu_game_started", ToRoom(room_id), "", gameState))

handle_start_digu_game(w, sid, gameState, hands) ==
    IF sid \notin DOMAIN w.player_sessions THEN w
    ELSE LET session == w.player_sessions[sid]
             room_id == session.roomId
         IN
         IF session.gameType # "digu" THEN w
         ELSE IF session.position # 0 THEN Say(w, Err(sid, "Only host can start the game"))
         ELSE IF room_id \notin DOMAIN w.digu_rooms THEN w
         ELSE LET room == w.digu_rooms[room_id] IN
              IF Cardinality(DOMAIN room.players) < MinPlayersDigu
              THEN Say(w, Err(sid, "Need at least 2 players to start"))
              ELSE IF ~AllReady(room.players)
              THEN Say(w, Err(sid, "All players must be ready"))
              ELSE Say([w EXCEPT !.digu_rooms[room_id].status = "playing",
                                 !.digu_rooms[room_id].gameState = gameState,
                                 !.digu_rooms[room_id].hands = hands],
                       Msg("digu_game_started", ToRoom(room_id), "", gameState))

remove_from_digu_queue(w, sid) ==
    [w EXCEPT !.digu_matchmaking_queue = Without(@, sid)]

broadcast_digu_queue_status(w) ==
    LET q == w.digu_matchmaking_queue
        count == Len(q)
    IN [w EXCEPT !.emits = @ \o [i \in 1..count |->
                Msg("digu_queue_update", ToSid(q[i]), "", MatchSize - count)]]

\* The Digu room of a new match: positions follow the queue order, slots
\* start ready, the room starts waiting and no timer is set up.
\* DiguMatchFormed with the slots of the new room not ready.
DiguMatchFormed_Unready(w, room_id) ==
    LET q == w.digu_matchmaking_queue
        match_players == SubSeq(q, 1, MatchSize)
        players == [p \in Positions |-> DiguSlot(match_players[p + 1], FALSE)]
        matched == Range(match_players)
        sessions == [s \in (DOMAIN w.player_sessions) \cup matched |->
                       IF s \in matched
                       THEN Session(room_id, LastIndex(match_players, s) - 1, "digu")
                       ELSE w.player_sessions[s]]
    IN [w EXCEPT
          !.digu_matchmaking_queue = SubSeq(q, MatchSize + 1, Len(q)),
          !.digu_rooms = Put(@, room_id, NewDiguRoom(TRUE, DefaultMaxPlayers, players)),
          !.player_sessions = sessions,
          !.emits = @ \o [i \in 1..MatchSize |->
                Msg("digu_match_found", ToSid(match_players[i]), "", i - 1)]]

DiguMatchFormed(w, room_id) ==
    LET q == w.digu_matchmaking_queue
        match_players == SubSeq(q, 1, MatchSize)
        players == [p \in Positions |-> DiguSlot(match_players[p + 1], TRUE)]
        matched == Range(match_players)
        sessions == [s \in (DOMAIN w.player_sessions) \cup matched |->
                       IF s \in matched
                       THEN Session(room_id, LastIndex(match_players, s) - 1, "digu")
                       ELSE w.player_sessions[s]]
    IN [w EXCEPT
          !.digu_matchmaking_queue = SubSeq(q, MatchSize + 1, Len(q)),
          !.digu_rooms = Put(@, room_id, NewDiguRoom(TRUE, DefaultMaxPlayers, players)),
          !.player_sessions = sessions,
          !.emits = @ \o [i \in 1..MatchSize |->
                Msg("digu_match_found", ToSid(match_players[i]), "", i - 1)]]

\* check_and_start_digu_match that never forms a match.
check_and_start_digu_match_Never(w) == {w}

check_and_start_digu_match(w) ==
    IF Len(w.digu_matchmaking_queue) >= MatchSize
    THEN {DiguMatchFormed(w, room_id) : room_id \in generate_room_code(w)}
    ELSE {w}

handle_join_digu_queue(w, sid) ==
    LET w1 == remove_from_digu_queue(w, sid) IN
    IF sid \in DOMAIN w1.player_sessions
    THEN {Say(w1, Err(sid, "Already in a room. Leave first."))}
    ELSE LET q == Append(w1.digu_matchmaking_queue, sid)
             needed == IF MatchSize - Len(q) > 0 THEN MatchSize - Len(q) ELSE 0
             w2 == Say([w1 EXCEPT !.digu_matchmaking_queue = q],
                       Msg("digu_queue_joined", ToSid(sid), "", needed))
         IN check_and_start_digu_match(broadcast_digu_queue_status(w2))

handle_leave_digu_queue(w, sid) ==
    LET was_in_queue == sid \in Range(w.digu_matchmaking_queue)
        w1 == remove_from_digu_queue(w, sid)
    IN IF was_in_queue
       THEN broadcast_digu_queue_status(Say(w1, Msg("digu_queue_left", ToSid(sid), "", 0)))
       ELSE w1

\* -------------------------------------------------------------- disconnect
\* The room part of handle_disconnect, the same code for both room tables:
\* a playing room keeps the slot as connected:false, any other room drops it.
DisconnectFrom(rms, room_id, position, left_ev, changed_ev) ==
    LET room == rms[room_id] IN
    IF position \notin DOMAIN room.players THEN [rooms |-> rms, emits |-> <<>>]
    ELSE IF room.status = "playing"
    THEN [rooms |-> [rms EXCEPT ![room_id].players[position].connected = FALSE],
          emits |-> <<Msg(left_ev, ToRoom(room_id), "disconnected", position)>>]
    ELSE LET left == RemoveSlot(room, position) IN
         IF DOMAIN left.players = {}
         THEN [rooms |-> Drop(rms, room_id), emits |-> <<>>]
         ELSE [rooms |-> [rms EXCEPT ![room_id] = left],
               emits |-> <<Msg(changed_ev, ToRoom(room_id), "", 0)>>]

handle_disconnect(w, sid) ==
    LET was_in_queue == sid \in Range(w.matchmaking_queue)
        q == Without(w.matchmaking_queue, sid)
        was_in_digu_queue == sid \in Range(w.digu_matchmaking_queue)
        dq == Without(w.digu_matchmaking_queue, sid)
        w1 == [w EXCEPT
                 !.matchmaking_queue = q,
                 !.digu_matchmaking_queue = dq,
                 !.emits = (IF was_in_queue
                            THEN [i \in 1..Len(q) |->
                                    Msg("queue_update", ToSid(q[i]), "", MatchSize - Len(q))]
                            ELSE <<>>)
                           \o (IF was_in_digu_queue
                               THEN [i \in 1..Len(dq) |->
                                    Msg("digu_queue_update", ToSid(dq[i]), "", MatchSize - Len(dq))]
                               ELSE <<>>)]
    IN IF sid \notin DOMAIN w.player_sessions THEN w1
       ELSE LET session == w.player_sessions[sid]
                room_id == session.roomId
                position == session.position
                w2 == IF session.gameType = "digu" /\ room_id \in DOMAIN w.digu_rooms
                      THEN LET d == DisconnectFrom(w.digu_rooms, room_id, position,
                                                   "digu_player_left", "digu_players_changed")
                           IN [w1 EXCEPT !.digu_rooms = d.rooms, !.emits = @ \o d.emits]
                      ELSE IF room_id \in DOMAIN w.rooms
                      THEN LET d == DisconnectFrom(w.rooms, room_id, position,
                                                   "player_left_game", "players_changed")
                           IN [w1 EXCEPT !.rooms = d.rooms, !.emits = @ \o d.emits]
                      ELSE w1
            IN [w2 EXCEPT !.player_sessions = Drop(@, sid)]

\* ---------------------------------------------------------------- actions
\* A handler runs for a connected sid; its run is one event.
Handles(sid) ==
    /\ script = <<>>
    /\ sid \in live
    /\ events < MaxEvents
    /\ events' = events + 1
    /\ UNCHANGED script

RECURSIVE Pending(_, _)
Pending(t, n) == IF n = 0 THEN 0 ELSE t[n] + Pending(t, n - 1)

\* One of the worlds a handler with random draws can leave behind.
CommitOne(ws) ==
    \E w \in ws : Pending(w.timers, MaxRoomIds) <= MaxPending /\ Commit(w)

Disconnect(sid) ==
    /\ Handles(sid)
    /\ Commit(handle_disconnect(World, sid))
    /\ live' = live \ {sid}

CreateRoom(sid) ==
    /\ Handles(sid)
    /\ \E room_id \in generate_room_code(World) :
           Commit(handle_create_room(World, sid, room_id))
    /\ UNCHANGED live

JoinRoom(sid) ==
    /\ Handles(sid)
    /\ \E room_id \in RoomIds : Commit(handle_join_room(World, sid, room_id))
    /\ UNCHANGED live

LeaveRoom(sid) ==
    /\ Handles(sid)
    /\ Commit(handle_leave_room(World, sid))
    /\ UNCHANGED live

SetReady(sid) ==
    /\ Handles(sid)
    /\ \E ready \in BOOLEAN : Commit(handle_set_ready(World, sid, ready))
    /\ UNCHANGED live

SwapPlayer(sid) ==
    /\ Handles(sid)
    /\ \E from_position \in Positions :
         LET at == IF sid \in DOMAIN player_sessions
                   THEN SessionsAt(player_sessions, player_sessions[sid].roomId, from_position)
                   ELSE {}
         IN \E first \in (IF at = {} THEN {sid} ELSE at) :
                Commit(handle_swap_player(World, sid, from_position, first))
    /\ UNCHANGED live

StartGame(sid) ==
    /\ Handles(sid)
    /\ \E gameState \in Payloads, hands \in Payloads :
           Commit(handle_start_game(World, sid, gameState, hands))
    /\ UNCHANGED live

CardPlayed(sid) ==
    /\ Handles(sid)
    /\ \E card \in Payloads : Commit(handle_card_played(World, sid, card))
    /\ UNCHANGED live

UpdateGameState(sid) ==
    /\ Handles(sid)
    /\ \E gameState \in Payloads :
           Commit(handle_update_game_state(World, sid, gameState))
    /\ UNCHANGED live

NewRound(sid) ==
    /\ Handles(sid)
    /\ \E gameState \in Payloads, hands \in Payloads :
           Commit(handle_new_round(World, sid, gameState, hands))
    /\ UNCHANGED live

ReadyForRound(sid) ==
    /\ Handles(sid)
    /\ Commit(handle_ready_for_round(World, sid))
    /\ UNCHANGED live

ConfirmMatch(sid) ==
    /\ Handles(sid)
    /\ Commit(handle_confirm_match(World, sid))
    /\ UNCHANGED live

JoinQueue(sid) ==
    /\ Handles(sid)
    /\ CommitOne(handle_join_queue(World, sid))
    /\ UNCHANGED live

LeaveQueue(sid) ==
    /\ Handles(sid)
    /\ Commit(handle_leave_queue(World, sid))
    /\ UNCHANGED live

\* A started timer that was not cancelled fires and runs its callback.
TimeoutFire(room_id) ==
    /\ script = <<>>
    /\ timers[room_id] > 0
    /\ CommitOne(handle_confirmation_timeout(
                    [World EXCEPT !.timers[room_id] = @ - 1], room_id))
    /\ UNCHANGED <<live, events, script>>

CreateDiguRoom(sid) ==
    /\ Handles(sid)
    /\ \E max_players \in MaxPlayersInputs, room_id \in generate_room_code(World) :
           Commit(handle_create_digu_room(World, sid, max_players, room_id))
    /\ UNCHANGED live

JoinDiguRoom(sid) ==
    /\ Handles(sid)
    /\ \E room_id \in RoomIds : Commit(handle_join_digu_room(World, sid, room_id))
    /\ UNCHANGED live

LeaveDiguRoom(sid) ==
    /\ Handles(sid)
    /\ Commit(handle_leave_digu_room(World, sid))
    /\ UNCHANGED live

DiguSetReady(sid) ==
    /\ Handles(sid)
    /\ \E ready \in BOOLEAN : Commit(handle_digu_set_ready(World, sid, ready))
    /\ UNCHANGED live

StartDiguGame(sid) ==
    /\ Handles(sid)
    /\ \E gameState \in Payloads, hands \in Payloads :
           Commit(handle_start_digu_game(World, sid, gameState, hands))
    /\ UNCHANGED live

JoinDiguQueue(sid) ==
    /\ Handles(sid)
    /\ CommitOne(handle_join_digu_queue(World, sid))
    /\ UNCHANGED live

LeaveDiguQueue(sid) ==
    /\ Handles(sid)
    /\ Commit(handle_leave_digu_queue(World, sid))
    /\ UNCHANGED live

\* ------------------------------------------------------ scripted histories
\* Exploration starts from the state after the module is loaded.  A behaviour
\* first runs one scripted history, a sequence of handler calls <<handler,
\* sid, argument>>, and then up to MaxEvents arbitrary handler calls, with
\* timers firing at any time after the history.  In a history every random
\* draw takes the lowest free room code and leaves the positions unshuffled.
jq(sid) == <<"join_queue", sid, 0>>
cm(sid) == <<"confirm_match", sid, 0>>
cr(sid) == <<"create_room", sid, 0>>
jr(sid) == <<"join_room", sid, 1>>
sr(sid) == <<"set_ready", sid, TRUE>>
sg(sid) == <<"start_game", sid, 1>>
dc(sid) == <<"disconnect", sid, 0>>
jdq(sid) == <<"join_digu_queue", sid, 0>>
cdr(sid, max_players) == <<"create_digu_room", sid, max_players>>
jdr(sid) == <<"join_digu_room", sid, 1>>
dsr(sid) == <<"digu_set_ready", sid, TRUE>>
fire(room_id) == <<"timeout", 0, room_id>>
rfr(sid) == <<"ready_for_round", sid, 0>>

ThreeQueued == <<jq(1), jq(2), jq(3)>>
Matched == ThreeQueued \o <<jq(4)>>
Confirming == Matched \o <<cm(1), cm(2), cm(3)>>
ConfirmingWaiting == Confirming \o <<jq(5)>>
Rematched == ConfirmingWaiting \o <<fire(1), cm(5), cm(1), cm(2)>>
BothQueues == <<jdq(4)>> \o Confirming
Lobby == <<cr(1), jr(2), jr(3), jr(4), sr(1), sr(2), sr(3), sr(4)>>
Playing == Lobby \o <<sg(1)>>
PlayingDropped == Playing \o <<dc(3)>>
DiguLobby == <<cdr(1, 3), jdr(2), dsr(1), dsr(2)>>
DiguThreeQueued == <<jdq(1), jdq(2), jdq(3)>>
RoundAcked == Playing \o <<rfr(1), rfr(2), rfr(3)>>
Abandoned == Confirming \o <<dc(4), dc(1), dc(2), dc(3)>>

Scripts == {<<>>, ThreeQueued, Matched, Confirming, ConfirmingWaiting, Rematched,
            BothQueues, Lobby, Playing, PlayingDropped, DiguLobby, DiguThreeQueued,
            RoundAcked, Abandoned}

LowestCode == Min(RoomIds \ DOMAIN rooms)

\* The worlds the scripted call c can leave behind.
Calls(c) ==
    LET sid == c[2]
        arg == c[3]
    IN CASE c[1] = "join_queue" -> handle_join_queue(World, sid)
         [] c[1] = "confirm_match" -> {handle_confirm_match(World, sid)}
         [] c[1] = "create_room" -> {handle_create_room(World, sid, LowestCode)}
         [] c[1] = "join_room" -> {handle_join_room(World, sid, arg)}
         [] c[1] = "set_ready" -> {handle_set_ready(World, sid, arg)}
         [] c[1] = "start_game" -> {handle_start_game(World, sid, arg, arg)}
         [] c[1] = "disconnect" -> {handle_disconnect(World, sid)}
         [] c[1] = "join_digu_queue" -> handle_join_digu_queue(World, sid)
         [] c[1] = "create_digu_room" -> {handle_create_digu_room(World, sid, arg, LowestCode)}
         [] c[1] = "join_digu_room" -> {handle_join_digu_room(World, sid, arg)}
         [] c[1] = "digu_set_ready" -> {handle_digu_set_ready(World, sid, arg)}
         [] c[1] = "ready_for_round" -> {handle_ready_for_round(World, sid)}
         [] c[1] = "timeout" -> handle_confirmation_timeout(
                                    [World EXCEPT !.timers[arg] = @ - 1], arg)

\* The rooms of w that a match formation of this step created.
NewMatches(w) ==
    {r \in DOMAIN w.rooms :
        /\ w.rooms[r].status = "confirming"
        /\ \A p \in DOMAIN w.rooms[r].players : ~w.rooms[r].players[p].confirmed
        /\ (r \in DOMAIN rooms => rooms[r] # w.rooms[r])}

\* The draws of a scripted call: lowest code, positions unshuffled.
Unshuffled(w) ==
    /\ \A r \in NewMatches(w) :
           /\ w.rooms[r].order = <<0, 1, 2, 3>>
           /\ \A r2 \in RoomIds : r2 < r => r2 \in DOMAIN w.rooms
    /\ \A r \in (DOMAIN w.digu_rooms) \ DOMAIN digu_rooms :
           \A r2 \in RoomIds : r2 < r => r2 \in DOMAIN rooms

Scripted ==
    /\ script # <<>>
    /\ LET c == Head(script) IN
         /\ \E w \in Calls(c) : Unshuffled(w) /\ Commit(w)
         /\ live' = IF c[1] = "disconnect" THEN live \ {c[2]} ELSE live
    /\ script' = Tail(script)
    /\ UNCHANGED events

Init ==
    /\ rooms = <<>>
    /\ digu_rooms = <<>>
    /\ player_sessions = <<>>
    /\ matchmaking_queue = <<>>
    /\ digu_matchmaking_queue = <<>>
    /\ match_timeouts = {}
    /\ timers = [r \in RoomIds |-> 0]
    /\ live = Sids
    /\ emits = <<>>
    /\ events = 0
    /\ script \in Scripts
    /\ threads = <<>>

Next ==
    \/ \E sid \in Sids :
        \/ Disconnect(sid)
        \/ CreateRoom(sid)
        \/ JoinRoom(sid)
        \/ LeaveRoom(sid)
        \/ SetReady(sid)
        \/ SwapPlayer(sid)
        \/ StartGame(sid)
        \/ CardPlayed(sid)
        \/ UpdateGameState(sid)
        \/ NewRound(sid)
        \/ ReadyForRound(sid)
        \/ ConfirmMatch(sid)
        \/ JoinQueue(sid)
        \/ LeaveQueue(sid)
        \/ CreateDiguRoom(sid)
        \/ JoinDiguRoom(sid)
        \/ LeaveDiguRoom(sid)
        \/ DiguSetReady(sid)
        \/ StartDiguGame(sid)
        \/ JoinDiguQueue(sid)
        \/ LeaveDiguQueue(sid)
    \/ \E room_id \in RoomIds : TimeoutFire(room_id)
    \/ Scripted

Spec == Init /\ [][Next]_vars

\* ---------------------------------------------------------------- threads
\* The server is built with async_mode='threading' and takes no lock: every
\* handler call and every timer callback is a thread of its own, and a thread
\* switch can fall between any two statements.  A thread is its operation,
\* the connection and room it is about, the statement it stands before (pc)
\* and its locals: 'pos' (position, was_in_queue), 'list' and 'more' (lists
\* built or sliced by the thread), 'obj' (the room object a timer callback
\* has deleted from rooms, which other threads may still reference) and
\* 'stale' (the thread's local 'room' references such a deleted object).
Thread(op, sid, room_id, pc) ==
    [op |-> op, sid |-> sid, room |-> room_id, pc |-> pc, pos |-> -1,
     list |-> <<>>, more |-> <<>>, obj |-> <<>>, stale |-> FALSE]

\* The registries with the messages sent so far.
Now == [World EXCEPT !.emits = emits]

At(t, op, pc) == t \in DOMAIN threads /\ threads[t].op = op /\ threads[t].pc = pc

\* Thread t finishes one statement: its locals become next, the registries w.
Goto(t, next, w) ==
    /\ threads' = [threads EXCEPT ![t] = next]
    /\ Store(w)
    /\ UNCHANGED <<live, events, script>>

Done(t, w) == Goto(t, [threads[t] EXCEPT !.pc = "done"], w)

\* One statement of a join_room thread.
JoinRoomStep(t) ==
    LET th == threads[t]
        sid == th.sid
        room_id == th.room
    IN
    \/ /\ At(t, "join_room", "start")
       /\ IF room_id \notin DOMAIN rooms THEN Done(t, Say(Now, Err(sid, "Room not found")))
          ELSE IF rooms[room_id].status # "waiting"
          THEN Done(t, Say(Now, Err(sid, "Game already in progress")))
          ELSE LET position == FirstFree(rooms[room_id].players, RoomSlots) IN
               IF position = -1 THEN Done(t, Say(Now, Err(sid, "Room is full")))
               ELSE Goto(t, [th EXCEPT !.pc = "add", !.pos = position], Now)
    \/ /\ At(t, "join_room", "add")
       /\ Goto(t, [th EXCEPT !.pc = "count"],
               [Now EXCEPT !.rooms[room_id].players = Put(@, th.pos, Slot(sid, FALSE, FALSE))])
    \/ /\ At(t, "join_room", "count")
       /\ Goto(t, [th EXCEPT !.pc = "bind"],
               [Now EXCEPT !.rooms[room_id].playerCount =
                               Cardinality(DOMAIN rooms[room_id].players)])
    \/ /\ At(t, "join_room", "bind")
       /\ Goto(t, [th EXCEPT !.pc = "tell"],
               [Now EXCEPT !.player_sessions = Put(@, sid, Session(room_id, th.pos, "dhihaei"))])
    \/ /\ At(t, "join_room", "tell")
       /\ Done(t, Say(Say(Now, Msg("room_joined", ToSid(sid), "", th.pos)),
                      Msg("players_changed", ToOthers(room_id, sid), "", 0)))

\* The thread whose callback deleted the room object of room_id.
Holder(room_id) ==
    CHOOSE k \in DOMAIN threads :
        threads[k].op = "timeout" /\ threads[k].room = room_id

\* The object a thread's local 'room' references.
RoomOf(th) == IF th.stale THEN threads[Holder(th.room)].obj ELSE rooms[th.room]

\* Thread t finishes a statement that assigns to the object its local 'room'
\* references: the room of the registry, or an object no registry holds.
GotoOn(t, next, w, room) ==
    IF threads[t].stale
    THEN /\ threads' = [threads EXCEPT ![t] = next, ![Holder(threads[t].room)].obj = room]
         /\ Store(w)
         /\ UNCHANGED <<live, events, script>>
    ELSE Goto(t, next, [w EXCEPT !.rooms[threads[t].room] = room])

\* One statement of a confirm_match thread.
ConfirmMatchStep(t) ==
    LET th == threads[t]
        sid == th.sid
    IN
    \/ /\ At(t, "confirm_match", "start")
       /\ IF sid \notin DOMAIN player_sessions THEN Done(t, Say(Now, Err(sid, "Not in a match")))
          ELSE LET room_id == player_sessions[sid].roomId IN
               IF room_id \notin DOMAIN rooms THEN Done(t, Say(Now, Err(sid, "Match not found")))
               ELSE IF ~rooms[room_id].isQuickMatch \/ rooms[room_id].status # "confirming"
               THEN Done(t, Say(Now, Err(sid, "Not in confirmation phase")))
               ELSE Goto(t, [th EXCEPT !.pc = "mark", !.room = room_id,
                                       !.pos = player_sessions[sid].position], Now)
    \/ /\ At(t, "confirm_match", "mark")
       /\ IF th.pos \notin DOMAIN RoomOf(th).players THEN Done(t, Now)
          ELSE GotoOn(t, [th EXCEPT !.pc = "all"],
                      Say(Now, Msg("player_confirmed", ToRoom(th.room), "", th.pos)),
                      [RoomOf(th) EXCEPT !.players[th.pos].confirmed = TRUE,
                                         !.players[th.pos].ready = TRUE])
    \/ /\ At(t, "confirm_match", "all")
       /\ IF \A p \in DOMAIN RoomOf(th).players : RoomOf(th).players[p].confirmed
          THEN Goto(t, [th EXCEPT !.pc = "cancel"], Now)
          ELSE Done(t, Now)
    \/ /\ At(t, "confirm_match", "cancel")
       /\ LET pending == {k \in DOMAIN threads : /\ threads[k].op = "timeout"
                                                 /\ threads[k].room = th.room
                                                 /\ threads[k].pc = "wait"}
              cancels == th.room \in match_timeouts
          IN /\ threads' = [k \in DOMAIN threads |->
                              IF k = t THEN [th EXCEPT !.pc = "waiting"]
                              ELSE IF cancels /\ k \in pending
                              THEN [threads[k] EXCEPT !.pc = "done"]
                              ELSE threads[k]]
             /\ Store([Now EXCEPT !.match_timeouts = @ \ {th.room},
                                  !.timers[th.room] = IF cancels /\ pending # {}
                                                      THEN @ - 1 ELSE @])
             /\ UNCHANGED <<live, events, script>>
    \/ /\ At(t, "confirm_match", "waiting")
       /\ GotoOn(t, [th EXCEPT !.pc = "tell"], Now, [RoomOf(th) EXCEPT !.status = "waiting"])
    \/ /\ At(t, "confirm_match", "tell")
       /\ Done(t, Say(Now, Msg("all_confirmed", ToRoom(th.room), "", 0)))

\* One statement of the thread of a confirmation timer.  The timer fires
\* unless it was cancelled while it waited; cancel() does nothing to a
\* callback that has begun.
TimeoutStep(t) ==
    LET th == threads[t]
        room_id == th.room
    IN
    \/ /\ At(t, "timeout", "wait")
       /\ Goto(t, [th EXCEPT !.pc = "start"], [Now EXCEPT !.timers[room_id] = @ - 1])
    \/ /\ At(t, "timeout", "start")
       /\ IF room_id \in DOMAIN rooms /\ rooms[room_id].status = "confirming"
          THEN Goto(t, [th EXCEPT !.pc = "collect"], Now)
          ELSE Goto(t, [th EXCEPT !.pc = "cleanup"], Now)
    \/ /\ At(t, "timeout", "collect")
       /\ LET room == rooms[room_id]
              owners(ps) == [i \in 1..Len(ps) |-> room.players[ps[i]].oderId]
          IN Goto(t, [th EXCEPT !.pc = "evict",
                                !.list = owners(InOrder(room, FALSE)),
                                !.more = owners(InOrder(room, TRUE))], Now)
    \/ /\ At(t, "timeout", "evict")
       /\ LET gone == Range(th.list) \cup Range(th.more) IN
          Goto(t, [th EXCEPT !.pc = "delete"],
               [Now EXCEPT
                  !.emits = @ \o [i \in 1..Len(th.list) |->
                                    Msg("match_timeout", ToSid(th.list[i]),
                                        "You did not confirm in time", 0)]
                              \o [i \in 1..Len(th.more) |->
                                    Msg("match_cancelled", ToSid(th.more[i]), "requeued", 1)],
                  !.player_sessions = [s \in (DOMAIN @) \ gone |-> @[s]],
                  !.matchmaking_queue = @ \o th.more])
    \/ /\ At(t, "timeout", "delete")
       /\ threads' = [k \in DOMAIN threads |->
                        IF k = t THEN [th EXCEPT !.pc = "retry", !.obj = rooms[room_id]]
                        ELSE IF /\ threads[k].op = "confirm_match"
                                /\ threads[k].room = room_id
                                /\ threads[k].pc \notin {"start", "done"}
                        THEN [threads[k] EXCEPT !.stale = TRUE]
                        ELSE threads[k]]
       /\ Store([Now EXCEPT !.rooms = Drop(@, room_id)])
       /\ UNCHANGED <<live, events, script>>
    \/ /\ At(t, "timeout", "retry")
       /\ \E w \in check_and_start_match(broadcast_queue_status(Now)) :
              Goto(t, [th EXCEPT !.pc = "cleanup"], w)
    \/ /\ At(t, "timeout", "cleanup")
       /\ Done(t, [Now EXCEPT !.match_timeouts = @ \ {room_id}])

\* One statement of a join_queue thread.  remove_from_queue and the slice of
\* check_and_start_match each read the queue, build a list and then rebind
\* the global name to it.
JoinQueueStep(t) ==
    LET th == threads[t]
        sid == th.sid
    IN
    \/ /\ At(t, "join_queue", "start")
       /\ Goto(t, [th EXCEPT !.pc = "store", !.list = Without(matchmaking_queue, sid)], Now)
    \/ /\ At(t, "join_queue", "store")
       /\ Goto(t, [th EXCEPT !.pc = "check", !.list = <<>>],
               [Now EXCEPT !.matchmaking_queue = th.list])
    \/ /\ At(t, "join_queue", "check")
       /\ IF sid \in DOMAIN player_sessions
          THEN Done(t, Say(Now, Err(sid, "Already in a room. Leave first.")))
          ELSE Goto(t, [th EXCEPT !.pc = "append"], Now)
    \/ /\ At(t, "join_queue", "append")
       /\ Goto(t, [th EXCEPT !.pc = "tell"],
               [Now EXCEPT !.matchmaking_queue = Append(@, sid)])
    \/ /\ At(t, "join_queue", "tell")
       /\ LET n == Len(matchmaking_queue)
              needed == IF MatchSize - n > 0 THEN MatchSize - n ELSE 0
          IN Goto(t, [th EXCEPT !.pc = "match"],
                  broadcast_queue_status(Say(Now, Msg("queue_joined", ToSid(sid), "", needed))))
    \/ /\ At(t, "join_queue", "match")
       /\ IF Len(matchmaking_queue) >= MatchSize
          THEN Goto(t, [th EXCEPT !.pc = "slice",
                                  !.list = SubSeq(matchmaking_queue, 1, MatchSize)], Now)
          ELSE Done(t, Now)
    \/ /\ At(t, "join_queue", "slice")
       /\ Goto(t, [th EXCEPT !.pc = "create"],
               [Now EXCEPT !.matchmaking_queue = SubSeq(@, MatchSize + 1, Len(@))])
    \/ /\ At(t, "join_queue", "create")
       /\ \E room_id \in generate_room_code(Now), positions \in Shuffles :
              Done(t, MatchFormed([Now EXCEPT !.matchmaking_queue = th.list \o @],
                                  room_id, positions))

\* One statement of a leave_queue thread.
LeaveQueueStep(t) ==
    LET th == threads[t]
        sid == th.sid
    IN
    \/ /\ At(t, "leave_queue", "start")
       /\ Goto(t, [th EXCEPT !.pc = "filter",
                             !.pos = IF sid \in Range(matchmaking_queue) THEN 1 ELSE 0], Now)
    \/ /\ At(t, "leave_queue", "filter")
       /\ Goto(t, [th EXCEPT !.pc = "store", !.list = Without(matchmaking_queue, sid)], Now)
    \/ /\ At(t, "leave_queue", "store")
       /\ Goto(t, [th EXCEPT !.pc = "tell", !.list = <<>>],
               [Now EXCEPT !.matchmaking_queue = th.list])
    \/ /\ At(t, "leave_queue", "tell")
       /\ IF th.pos = 1
          THEN Done(t, broadcast_queue_status(Say(Now, Msg("queue_left", ToSid(sid), "", 0))))
          ELSE Done(t, Now)

\* The registries of a server that has handled nothing yet.
Fresh ==
    [rooms |-> <<>>, digu_rooms |-> <<>>, player_sessions |-> <<>>,
     matchmaking_queue |-> <<>>, digu_matchmaking_queue |-> <<>>,
     match_timeouts |-> {}, timers |-> [r \in RoomIds |-> 0], emits |-> <<>>]

Hush(w) == [w EXCEPT !.emits = <<>>]

Only(ws) == CHOOSE w \in ws : TRUE

\* Registries left by handler calls that ran one after the other: a private
\* room of connection 1; two and three queued connections; the match of four
\* with code 1 and positions in queue order; that match with three
\* confirmations.
LobbyWorld == Hush(handle_create_room(Fresh, 1, 1))

TwoQueuedWorld == Hush(Only(handle_join_queue(Only(handle_join_queue(Fresh, 1)), 2)))

ThreeQueuedWorld == Hush(Only(handle_join_queue(TwoQueuedWorld, 3)))

MatchedWorld ==
    Hush(CHOOSE w \in handle_join_queue(ThreeQueuedWorld, 4) :
            1 \in DOMAIN w.rooms /\ \A i \in 1..MatchSize : w.rooms[1].order[i] = i - 1)

ConfirmingWorld ==
    Hush(handle_confirm_match(handle_confirm_match(handle_confirm_match(MatchedWorld, 1), 2), 3))

\* Requests that arrive together, and the registries they find.  The timer
\* of a match formed within a scenario is counted in timers and does not
\* fire within it.
Scenarios ==
    {[world |-> LobbyWorld,
      threads |-> <<Thread("join_room", 2, 1, "start"), Thread("join_room", 3, 1, "start")>>],
     [world |-> ConfirmingWorld,
      threads |-> <<Thread("timeout", None, 1, "wait"), Thread("confirm_match", 4, None, "start")>>],
     [world |-> ThreeQueuedWorld,
      threads |-> <<Thread("join_queue", 4, None, "start"), Thread("join_queue", 5, None, "start")>>],
     [world |-> TwoQueuedWorld,
      threads |-> <<Thread("leave_queue", 1, None, "start"), Thread("join_queue", 3, None, "start")>>]}

InitThreads ==
    \E sc \in Scenarios :
        /\ rooms = sc.world.rooms
        /\ digu_rooms = sc.world.digu_rooms
        /\ player_sessions = sc.world.player_sessions
        /\ matchmaking_queue = sc.world.matchmaking_queue
        /\ digu_matchmaking_queue = sc.world.digu_matchmaking_queue
        /\ match_timeouts = sc.world.match_timeouts
        /\ timers = sc.world.timers
        /\ live = Sids
        /\ emits = <<>>
        /\ events = 0
        /\ script = <<>>
        /\ threads = sc.threads

NextThreads ==
    \E t \in 1..MaxThreads :
        \/ JoinRoomStep(t)
        \/ ConfirmMatchStep(t)
        \/ TimeoutStep(t)
        \/ JoinQueueStep(t)
        \/ LeaveQueueStep(t)

SpecThreads == InitThreads /\ [][NextThreads]_vars

\* ------------------------------------------------------------------ claims
Occupied(room) == Cardinality(DOMAIN room.players)

\* C1: in every reachable state the recorded playerCount of every Dhiha Ei
\* room and of every Digu room equals the number of occupied entries of its
\* players map.
C1_PlayerCountMatchesSlots ==
    /\ \A r \in DOMAIN rooms : rooms[r].playerCount = Occupied(rooms[r])
    /\ \A r \in DOMAIN digu_rooms : digu_rooms[r].playerCount = Occupied(digu_rooms[r])

\* A member has just left a lobby of four: three slots are occupied and the
\* recorded playerCount is 3.
C1_Witness ==
    /\ events > 0
    /\ emits # <<>>
    /\ emits[1].ev = "players_changed"
    /\ emits[1].to[1] = "room"
    /\ \E r \in DOMAIN rooms :
         /\ emits[1].to = ToRoom(r)
         /\ rooms[r].playerCount = RoomSlots - 1
         /\ Occupied(rooms[r]) = RoomSlots - 1
         /\ \A p \in DOMAIN rooms[r].players : rooms[r].players[p].ready

\* sid owns the connected slot t = <<table, room id, position>>.
Owns(sid, t) ==
    LET table == IF t[1] = "digu" THEN digu_rooms ELSE rooms IN
    /\ t[2] \in DOMAIN table
    /\ t[3] \in DOMAIN table[t[2]].players
    /\ table[t[2]].players[t[3]].oderId = sid
    /\ table[t[2]].players[t[3]].connected

Bound(sid, t) ==
    /\ sid \in DOMAIN player_sessions
    /\ player_sessions[sid] = Session(t[2], t[3], t[1])

\* C2: a connection owns a connected slot of a room exactly when its session
\* names that room and that position.
C2_SessionsMatchSlots ==
    \A sid \in Sids :
        \A t \in {"dhihaei", "digu"} \X RoomIds \X Positions :
            Owns(sid, t) <=> Bound(sid, t)

\* C3: no connection is in a matchmaking queue and bound to a room at once.
C3_QueuedOrBound ==
    \A sid \in DOMAIN player_sessions :
        sid \notin Range(matchmaking_queue) \cup Range(digu_matchmaking_queue)

Occurrences(q, sid) == Cardinality({i \in 1..Len(q) : q[i] = sid})

\* C4: a connection stands at most once in the two matchmaking queues
\* together.
C4_QueuedOnce ==
    \A sid \in Sids :
        Occurrences(matchmaking_queue, sid)
            + Occurrences(digu_matchmaking_queue, sid) <= 1

\* The step ran handle_join_queue for sid and the call was accepted: only
\* that handler emits queue_joined.
JoinedQueue(sid) ==
    /\ emits' # <<>>
    /\ emits'[1] .ev = "queue_joined"
    /\ emits'[1] .to = ToSid(sid)

\* C5: join_queue calls accepted while fewer than three others wait form no
\* match and leave the caller at the tail; the join_queue accepted while
\* three distinct others wait forms exactly one match: the queue is empty
\* afterwards, one room is new, it is confirming, and the four connections
\* are bound to it at positions that are a permutation of 0..3, each slot
\* unconfirmed.
C5_FourthJoinFormsOneMatch ==
    [][\A sid \in Sids : JoinedQueue(sid) =>
         LET q == Without(matchmaking_queue, sid)
             all == Append(q, sid)
         IN /\ Len(q) < MatchSize - 1 =>
                 /\ DOMAIN rooms' = DOMAIN rooms
                 /\ matchmaking_queue' = all
            /\ (Len(q) = MatchSize - 1 /\ Cardinality(Range(q)) = MatchSize - 1) =>
                 /\ matchmaking_queue' = <<>>
                 /\ \E r \in (DOMAIN rooms') \ DOMAIN rooms :
                      /\ DOMAIN rooms' = (DOMAIN rooms) \cup {r}
                      /\ \A r2 \in DOMAIN rooms : rooms'[r2] = rooms[r2]
                      /\ rooms'[r].status = "confirming"
                      /\ DOMAIN rooms'[r].players = Positions
                      /\ \A m \in Range(all) :
                           /\ m \in DOMAIN player_sessions'
                           /\ player_sessions'[m].roomId = r
                           /\ rooms'[r].players[player_sessions'[m].position].oderId = m
                      /\ {player_sessions'[m].position : m \in Range(all)} = Positions
                      /\ \A p \in Positions : ~rooms'[r].players[p].confirmed
       ]_vars

\* A fourth join_queue has just formed a match with shuffled positions.
C5_Witness ==
    /\ events > 0
    /\ Len(emits) > MatchSize
    /\ emits[1].ev = "queue_joined"
    /\ emits[Len(emits)].ev = "match_found"
    /\ matchmaking_queue = <<>>
    /\ \E r \in DOMAIN rooms :
         rooms[r].status = "confirming" /\ rooms[r].order = <<2, 0, 3, 1>>

\* A confirming room with four members, three of them confirmed and one not.
OneUnconfirmed(room_id) ==
    /\ room_id \in DOMAIN rooms
    /\ rooms[room_id].status = "confirming"
    /\ DOMAIN rooms[room_id].players = Positions
    /\ Cardinality({p \in Positions : rooms[room_id].players[p].confirmed}) = MatchSize - 1

\* The step ran the timer callback of such a room: only the callback emits
\* match_timeout, it emits it first, and it touches no room but its own (and
\* the room of a retried match, whose code names no other existing room).
TimedOut(room_id) ==
    /\ OneUnconfirmed(room_id)
    /\ emits' # <<>>
    /\ emits'[1] .ev = "match_timeout"
    /\ room_id \in DOMAIN rooms' => rooms'[room_id] # rooms[room_id]

Owner(room, positions) == [i \in 1..Len(positions) |-> room.players[positions[i]].oderId]

\* The members of a room whose slot is confirmed, in the order in which the
\* match took them from the queue.
ConfirmedAsMatched(room) ==
    SelectSeq(room.matched,
              LAMBDA s : \E p \in DOMAIN room.players :
                            room.players[p].oderId = s /\ room.players[p].confirmed)

Notified(ems, m) == \E i \in 1..Len(ems) : ems[i] = m

\* C6 as claimed: when the timeout fires on a confirming room with A, B, C
\* confirmed and D unconfirmed, D gets a timeout notice, has no session and is
\* in no queue; A, B, C get a cancellation notice with requeued=true, have no
\* session and stand at the tail of the queue behind the entries already
\* waiting, in the order they were matched; the room no longer exists.
C6_TimeoutUnbindsAndRequeues ==
    [][\A r \in RoomIds : TimedOut(r) =>
         LET room == rooms[r]
             D == Owner(room, InOrder(room, FALSE))[1]
             ABC == ConfirmedAsMatched(room)
         IN /\ Notified(emits', Msg("match_timeout", ToSid(D), "You did not confirm in time", 0))
            /\ D \notin DOMAIN player_sessions'
            /\ D \notin Range(matchmaking_queue') \cup Range(digu_matchmaking_queue')
            /\ \A m \in Range(ABC) :
                 /\ Notified(emits', Msg("match_cancelled", ToSid(m), "requeued", 1))
                 /\ m \notin DOMAIN player_sessions'
            /\ matchmaking_queue' = matchmaking_queue \o ABC
            /\ r \notin DOMAIN rooms'
       ]_vars

\* C6 (amended): when the timeout fires on a confirming room with A, B, C
\* confirmed and D unconfirmed, D gets a timeout notice and A, B, C a
\* cancellation notice with requeued=true; A, B, C are appended to the tail of
\* the queue behind the entries already waiting, in the order of their slots
\* in the room's player table, D is added to no queue and the room is deleted;
\* match formation is then retried at once: a queue that now holds four or
\* more entries loses its first four to a new confirming room (which may
\* reuse the deleted room's code).  Every member of the dissolved room that
\* the new match did not take has no session.
C6_TimeoutRequeuesAndRetries ==
    [][\A r \in RoomIds : TimedOut(r) =>
         LET room == rooms[r]
             D == Owner(room, InOrder(room, FALSE))[1]
             ABC == Owner(room, InOrder(room, TRUE))
             owners == Range(ABC) \cup {D}
             requeued == matchmaking_queue \o ABC
             retry == Len(requeued) >= MatchSize
             taken == SubSeq(requeued, 1, MatchSize)
         IN /\ emits'[1] = Msg("match_timeout", ToSid(D), "You did not confirm in time", 0)
            /\ \A i \in 1..Len(ABC) :
                 emits'[i + 1] = Msg("match_cancelled", ToSid(ABC[i]), "requeued", 1)
            /\ digu_matchmaking_queue' = digu_matchmaking_queue
            /\ ~retry =>
                 /\ matchmaking_queue' = requeued
                 /\ rooms' = Drop(rooms, r)
                 /\ \A m \in owners : m \notin DOMAIN player_sessions'
            /\ retry =>
                 /\ matchmaking_queue' = SubSeq(requeued, MatchSize + 1, Len(requeued))
                 /\ \A m \in owners \ Range(taken) : m \notin DOMAIN player_sessions'
                 /\ \E n \in DOMAIN rooms' :
                      /\ n = r \/ n \notin DOMAIN rooms
                      /\ n # r => r \notin DOMAIN rooms'
                      /\ rooms'[n].status = "confirming"
                      /\ rooms'[n].matched = taken
                      /\ \A p \in Positions : ~rooms'[n].players[p].confirmed
                      /\ \A m \in Range(taken) : player_sessions'[m].roomId = n
       ]_vars

\* The timeout has just dissolved a match with three confirmed members while
\* another connection was waiting, and the retry matched the four of them.
C6_Witness ==
    /\ Len(emits) = 3 * MatchSize
    /\ emits[1].ev = "match_timeout"
    /\ \A i \in 2..MatchSize : emits[i].ev = "match_cancelled" /\ emits[i].val = 1
    /\ \A i \in (2 * MatchSize + 1)..(3 * MatchSize) : emits[i].ev = "match_found"
    /\ matchmaking_queue = <<>>
    /\ \E r \in DOMAIN rooms : rooms[r].status = "confirming"

\* The step ran handle_confirm_match on a slot of confirming room_id whose
\* other occupied slots were all confirmed already: only that handler emits
\* player_confirmed, first, to the room, with the position it confirmed.
LastConfirms(room_id) ==
    /\ room_id \in DOMAIN rooms
    /\ rooms[room_id].status = "confirming"
    /\ emits' # <<>>
    /\ emits'[1] .ev = "player_confirmed"
    /\ emits'[1] .to = ToRoom(room_id)
    /\ \A p \in (DOMAIN rooms[room_id].players) \ {emits'[1] .val} :
           rooms[room_id].players[p].confirmed

\* The step ran timeout recovery: only the timer callback emits these.
Recovers ==
    /\ emits' # <<>>
    /\ emits'[1] .ev \in {"match_timeout", "match_cancelled"}

\* C7: the confirm_match that makes every occupied slot of a confirming room
\* confirmed turns the room to waiting, cancels its pending timer and removes
\* it from the timeout table; and timeout recovery never deletes a quick-match
\* room that has left confirming, nor unbinds a member of it.
C7_AllConfirmedCancelsTimer ==
    [][\A r \in RoomIds :
         /\ LastConfirms(r) =>
              /\ rooms'[r].status = "waiting"
              /\ r \notin match_timeouts'
              /\ timers'[r] = timers[r] - 1
         /\ (/\ Recovers
             /\ r \in DOMAIN rooms
             /\ rooms[r].isQuickMatch
             /\ rooms[r].status # "confirming") =>
              /\ r \in DOMAIN rooms'
              /\ rooms'[r] = rooms[r]
              /\ \A s \in DOMAIN player_sessions :
                   player_sessions[s].roomId = r =>
                     s \in DOMAIN player_sessions' /\ player_sessions'[s] = player_sessions[s]
       ]_vars

\* A timer that was started and not cancelled fires; a call the server has
\* received is handled.
LiveScripts == {Confirming}

InitLive == Init /\ script \in LiveScripts

SpecLive ==
    /\ InitLive
    /\ [][Next]_vars
    /\ WF_vars(Scripted)
    /\ \A r \in RoomIds : WF_vars(TimeoutFire(r))

IsConfirming(room_id) ==
    room_id \in DOMAIN rooms /\ rooms[room_id].status = "confirming"

\* C8: a room that is confirming eventually is not, whether or not its
\* members confirm, leave or disconnect, given that a pending timer fires.
C8_ConfirmingEnds ==
    \A r \in RoomIds : IsConfirming(r) ~> ~IsConfirming(r)

\* The timer has just dissolved a match whose unconfirmed member disconnected
\* after the three others had confirmed: all its slots were confirmed, and
\* the room was confirming still.
C8_Witness ==
    /\ Len(emits) >= MatchSize - 1
    /\ \A i \in 1..(MatchSize - 1) : emits[i].ev = "match_cancelled"
    /\ Cardinality(live) = NumSids - 1
    /\ Len(matchmaking_queue) = MatchSize - 1
    /\ \A r \in RoomIds : ~IsConfirming(r)

\* Playing rooms and the connections a join_room can come from.
Dropped(room) == {p \in DOMAIN room.players : ~room.players[p].connected}

PlayingRooms == {r \in DOMAIN rooms : rooms[r].status = "playing"}

NewConnections == live \ DOMAIN player_sessions

Rejected(sid, room_id) ==
    handle_join_room(World, sid, room_id) =
        Say(World, Err(sid, "Game already in progress"))

\* C9 as claimed: join_room by a new connection on a playing room with an
\* occupied position p marked connected:false gives the joiner position p:
\* the slot is the joiner's, ready and connected, the joiner's session names
\* the room and p, and the joiner is sent the room's gameState.
C9_JoinReplacesDropped ==
    \A r \in PlayingRooms : \A sid \in NewConnections :
        Dropped(rooms[r]) # {} =>
            LET w == handle_join_room(World, sid, r) IN
            /\ sid \in DOMAIN w.player_sessions
            /\ w.player_sessions[sid].roomId = r
            /\ w.player_sessions[sid].position \in Dropped(rooms[r])
            /\ LET slot == w.rooms[r].players[w.player_sessions[sid].position]
               IN slot.oderId = sid /\ slot.ready /\ slot.connected
            /\ \E i \in 1..Len(w.emits) :
                 w.emits[i].to = ToSid(sid) /\ w.emits[i].val = rooms[r].gameState

\* C9 (amended): join_room by a new connection on a playing room with an
\* occupied position marked connected:false is rejected with the error
\* 'Game already in progress': no room, slot or session changes, and the
\* joiner has no session.
C9_JoinPlayingDroppedRejected ==
    \A r \in PlayingRooms : \A sid \in NewConnections :
        Dropped(rooms[r]) # {} => Rejected(sid, r)

\* A new connection's join_room has just been rejected by a playing room
\* that has a dropped player.
C9_Witness ==
    /\ events > 0
    /\ \E sid \in NewConnections :
         /\ emits = <<Err(sid, "Game already in progress")>>
         /\ DOMAIN digu_rooms = {}
         /\ DOMAIN rooms # {}
         /\ \A r \in DOMAIN rooms :
              /\ rooms[r].status = "playing"
              /\ Dropped(rooms[r]) # {}
              /\ Cardinality(DOMAIN rooms[r].players) = RoomSlots

\* C10 as claimed: join_room by a new connection on a playing room whose
\* occupied positions are all connected admits the joiner as a spectator: it
\* is in the room's spectator map, has a session with the spectator flag,
\* holds no player position, and playerCount is unchanged.
C10_JoinAdmitsSpectator ==
    \A r \in PlayingRooms : \A sid \in NewConnections :
        Dropped(rooms[r]) = {} =>
            LET w == handle_join_room(World, sid, r) IN
            /\ sid \in DOMAIN w.player_sessions
            /\ "isSpectator" \in DOMAIN w.player_sessions[sid]
            /\ w.player_sessions[sid].isSpectator
            /\ "spectators" \in DOMAIN w.rooms[r]
            /\ sid \in DOMAIN w.rooms[r].spectators
            /\ \A p \in DOMAIN w.rooms[r].players : w.rooms[r].players[p].oderId # sid
            /\ w.rooms[r].playerCount = rooms[r].playerCount

\* C10 (amended): join_room by a new connection on a playing room whose
\* occupied positions are all connected is rejected with the error 'Game
\* already in progress': the joiner gets no session and no player position,
\* and the room, its playerCount included, is unchanged.
C10_JoinPlayingConnectedRejected ==
    \A r \in PlayingRooms : \A sid \in NewConnections :
        Dropped(rooms[r]) = {} => Rejected(sid, r)

\* A new connection's join_room has just been rejected by a playing room
\* that has a free position and whose remaining players are all connected.
C10_Witness ==
    /\ events > 1
    /\ \E sid \in NewConnections :
         /\ emits = <<Err(sid, "Game already in progress")>>
         /\ DOMAIN digu_rooms = {}
         /\ DOMAIN rooms # {}
         /\ \A r \in DOMAIN rooms :
              /\ rooms[r].status = "playing"
              /\ Dropped(rooms[r]) = {}
              /\ rooms[r].playerCount = RoomSlots - 1

\* The positions below n that no slot of the room occupies.
FreePositions(room, n) == {i \in 0..(n - 1) : i \notin DOMAIN room.players}

\* 'new' is 'old' with one more slot, at position, owned by sid, not ready
\* and connected; every other slot is as it was.
SlotAdded(old, new, sid, position) ==
    /\ DOMAIN new.players = (DOMAIN old.players) \cup {position}
    /\ \A q \in DOMAIN old.players : new.players[q] = old.players[q]
    /\ new.players[position].oderId = sid
    /\ ~new.players[position].ready
    /\ new.players[position].connected
    /\ new.playerCount = old.playerCount + 1
    /\ new.status = old.status

\* C11: join_room on a waiting Dhiha Ei room with a free position below 4,
\* and join_digu_room on a waiting Digu room with a free position below its
\* maxPlayers, give the caller the lowest free position: the slot there is
\* the caller's, ready:false and connected:true, the other slots are as
\* before, playerCount is one more, and the caller's session names the room
\* and that position.
C11_JoinTakesLowestFree ==
    \A sid \in live :
        /\ \A r \in DOMAIN rooms :
             (rooms[r].status = "waiting" /\ FreePositions(rooms[r], RoomSlots) # {}) =>
                 LET position == Min(FreePositions(rooms[r], RoomSlots))
                     w == handle_join_room(World, sid, r)
                 IN /\ SlotAdded(rooms[r], w.rooms[r], sid, position)
                    /\ w.player_sessions[sid].roomId = r
                    /\ w.player_sessions[sid].position = position
        /\ \A r \in DOMAIN digu_rooms :
             (/\ digu_rooms[r].status = "waiting"
              /\ FreePositions(digu_rooms[r], digu_rooms[r].maxPlayers) # {}) =>
                 LET position == Min(FreePositions(digu_rooms[r], digu_rooms[r].maxPlayers))
                     w == handle_join_digu_room(World, sid, r)
                 IN /\ SlotAdded(digu_rooms[r], w.digu_rooms[r], sid, position)
                    /\ w.player_sessions[sid].roomId = r
                    /\ w.player_sessions[sid].position = position

\* One connection created a room and a second one has just joined it: the
\* second is at position 1 and the room counts two players.
C11_Witness ==
    /\ events > 1
    /\ emits # <<>>
    /\ \E sid \in DOMAIN player_sessions :
         /\ emits[1] = Msg("room_joined", ToSid(sid), "", 1)
         /\ LET r == player_sessions[sid].roomId
            IN /\ r \in DOMAIN rooms
               /\ rooms[r].playerCount = 2
               /\ DOMAIN rooms[r].players = {0, 1}
               /\ rooms[r].players[1].oderId = sid
               /\ rooms[r].players[0].oderId # sid

\* C12: join_room on a code that names no room, on a confirming room, or on
\* a waiting room with no free position below 4 (join_digu_room: on a code
\* that names no Digu room, or a waiting Digu room with no free position
\* below maxPlayers) sends one error to the caller and changes no room, no
\* session and no queue.
C12_JoinErrorsChangeNothing ==
    \A sid \in live : \A r \in RoomIds :
        /\ r \notin DOMAIN rooms =>
             handle_join_room(World, sid, r) = Say(World, Err(sid, "Room not found"))
        /\ (r \in DOMAIN rooms /\ rooms[r].status = "confirming") =>
             handle_join_room(World, sid, r) =
                 Say(World, Err(sid, "Game already in progress"))
        /\ (/\ r \in DOMAIN rooms
            /\ rooms[r].status = "waiting"
            /\ FreePositions(rooms[r], RoomSlots) = {}) =>
             handle_join_room(World, sid, r) = Say(World, Err(sid, "Room is full"))
        /\ r \notin DOMAIN digu_rooms =>
             handle_join_digu_room(World, sid, r) = Say(World, Err(sid, "Room not found"))
        /\ (/\ r \in DOMAIN digu_rooms
            /\ digu_rooms[r].status = "waiting"
            /\ FreePositions(digu_rooms[r], digu_rooms[r].maxPlayers) = {}) =>
             handle_join_digu_room(World, sid, r) = Say(World, Err(sid, "Room is full"))

\* A fifth connection's join_room has just been refused by a full lobby.
C12_Witness ==
    /\ events > 0
    /\ DOMAIN digu_rooms = {}
    /\ \E sid \in NewConnections : emits = <<Err(sid, "Room is full")>>
    /\ \E r \in DOMAIN rooms :
         rooms[r].status = "waiting" /\ DOMAIN rooms[r].players = Positions

\* The callers handle_swap_player accepts as host of a Dhiha Ei room.
Hosts == {sid \in live \cap DOMAIN player_sessions :
            /\ player_sessions[sid].position = 0
            /\ player_sessions[sid].roomId \in DOMAIN rooms}

\* The positions of the team opposite to a position's team.
OppositeTeam(position) == IF position \in {0, 2} THEN {1, 3} ELSE {0, 2}

\* The sessions the move branch can meet first.
Firsts(sid, from_position) ==
    LET at == SessionsAt(player_sessions, player_sessions[sid].roomId, from_position)
    IN IF at = {} THEN {sid} ELSE at

\* In w the session of the connected owner of a slot names room_id and
\* position.
Rebound(w, slot, room_id, position) ==
    slot.connected =>
        /\ slot.oderId \in DOMAIN w.player_sessions
        /\ w.player_sessions[slot.oderId].roomId = room_id
        /\ w.player_sessions[slot.oderId].position = position

\* In w every session but those of the given connections is as it is now.
OtherSessionsKept(w, sids) ==
    /\ DOMAIN w.player_sessions = DOMAIN player_sessions
    /\ \A s \in (DOMAIN player_sessions) \ sids : w.player_sessions[s] = player_sessions[s]

\* C13: swap_player(fromPosition) by the connection bound at position 0,
\* with fromPosition occupied and a position of the opposite team empty, moves
\* the occupant to the lowest empty opposite position and vacates
\* fromPosition; the occupant's session names the new position; every other
\* slot, every other session and playerCount are unchanged.
C13_SwapMovesToEmpty ==
    \A sid \in Hosts :
        LET r == player_sessions[sid].roomId
            players == rooms[r].players
        IN \A from_position \in DOMAIN players :
             LET empty == OppositeTeam(from_position) \ DOMAIN players IN
             empty # {} =>
               \A first \in Firsts(sid, from_position) :
                 LET w == handle_swap_player(World, sid, from_position, first)
                     to == Min(empty)
                 IN /\ DOMAIN w.rooms[r].players = ((DOMAIN players) \ {from_position}) \cup {to}
                    /\ w.rooms[r].players[to] = players[from_position]
                    /\ \A q \in (DOMAIN players) \ {from_position} :
                         w.rooms[r].players[q] = players[q]
                    /\ w.rooms[r].playerCount = rooms[r].playerCount
                    /\ Rebound(w, players[from_position], r, to)
                    /\ OtherSessionsKept(w, {players[from_position].oderId})

\* C14: swap_player(fromPosition) by the connection bound at position 0,
\* with both positions of the opposite team occupied, exchanges the occupant
\* of fromPosition with the occupant of the lower opposite position; the
\* sessions of the two name their new positions; the other slots, the other
\* sessions, the set of occupied positions and playerCount are unchanged.
C14_SwapExchangesOccupants ==
    \A sid \in Hosts :
        LET r == player_sessions[sid].roomId
            players == rooms[r].players
        IN \A from_position \in DOMAIN players :
             OppositeTeam(from_position) \subseteq DOMAIN players =>
               \A first \in Firsts(sid, from_position) :
                 LET w == handle_swap_player(World, sid, from_position, first)
                     to == Min(OppositeTeam(from_position))
                 IN /\ DOMAIN w.rooms[r].players = DOMAIN players
                    /\ w.rooms[r].players[to] = players[from_position]
                    /\ w.rooms[r].players[from_position] = players[to]
                    /\ \A q \in (DOMAIN players) \ {from_position, to} :
                         w.rooms[r].players[q] = players[q]
                    /\ w.rooms[r].playerCount = rooms[r].playerCount
                    /\ Rebound(w, players[from_position], r, to)
                    /\ Rebound(w, players[to], r, from_position)
                    /\ OtherSessionsKept(w, {players[from_position].oderId, players[to].oderId})

\* C15: swap_player by a caller whose session position is not 0 sends the
\* caller the error 'Only host can assign teams'; by a caller at position 0
\* of a Dhiha Ei room with fromPosition unoccupied, the error 'No player in
\* that position'.  In both cases that error is the only message and no
\* slot and no session changes.
C15_SwapErrorsChangeNothing ==
    \A sid \in live \cap DOMAIN player_sessions : \A from_position \in Positions :
        \A first \in Firsts(sid, from_position) :
            LET session == player_sessions[sid]
                w == handle_swap_player(World, sid, from_position, first)
            IN /\ session.position # 0 =>
                    w = Say(World, Err(sid, "Only host can assign teams"))
               /\ (/\ session.position = 0
                   /\ session.roomId \in DOMAIN rooms
                   /\ from_position \notin DOMAIN rooms[session.roomId].players) =>
                    w = Say(World, Err(sid, "No player in that position"))

\* A member who is not the host has just been refused a swap in a full
\* lobby.
C15_Witness ==
    /\ events > 0
    /\ \E sid \in DOMAIN player_sessions :
         /\ emits = <<Err(sid, "Only host can assign teams")>>
         /\ player_sessions[sid].position # 0
         /\ player_sessions[sid].roomId \in DOMAIN rooms
         /\ DOMAIN rooms[player_sessions[sid].roomId].players = Positions
         /\ rooms[player_sessions[sid].roomId].players[player_sessions[sid].position].oderId = sid

\* The callers of start_game whose session names a Dhiha Ei room.
Starters == {sid \in live \cap DOMAIN player_sessions :
               player_sessions[sid].roomId \in DOMAIN rooms}

\* World w is the current one with room room_id playing on the supplied
\* gameState and hands, its slots and every other room and session as before.
Started(w, room_id, gameState, hands) ==
    /\ w.rooms[room_id].status = "playing"
    /\ w.rooms[room_id].gameState = gameState
    /\ w.rooms[room_id].hands = hands
    /\ w.rooms[room_id].players = rooms[room_id].players
    /\ w.rooms[room_id].playerCount = rooms[room_id].playerCount
    /\ DOMAIN w.rooms = DOMAIN rooms
    /\ \A r \in DOMAIN rooms \ {room_id} : w.rooms[r] = rooms[r]
    /\ w.digu_rooms = digu_rooms
    /\ w.player_sessions = player_sessions
    /\ w.emits = <<Msg("game_started", ToRoom(room_id), "", gameState)>>

\* C16: start_game by a caller whose session names a Dhiha Ei room stores the
\* supplied gameState and hands and sets status playing exactly when the
\* caller's position is 0, the room has 4 occupied positions and every slot
\* is ready.  Otherwise the only effect is one error to the caller: 'Only
\* host can start the game', else 'Need 4 players to start' when the count
\* is not 4, else 'All players must be ready'.
C16_StartGameConditions ==
    \A sid \in Starters : \A gameState \in Payloads, hands \in Payloads :
        LET session == player_sessions[sid]
            room == rooms[session.roomId]
            w == handle_start_game(World, sid, gameState, hands)
        IN IF session.position # 0
           THEN w = Say(World, Err(sid, "Only host can start the game"))
           ELSE IF Occupied(room) # RoomSlots
           THEN w = Say(World, Err(sid, "Need 4 players to start"))
           ELSE IF \E p \in DOMAIN room.players : ~room.players[p].ready
           THEN w = Say(World, Err(sid, "All players must be ready"))
           ELSE Started(w, session.roomId, gameState, hands)

\* The host of a full and ready lobby has just started the game.
C16_Witness ==
    /\ events > 0
    /\ \E r \in DOMAIN rooms : \E gameState \in Payloads :
         /\ emits = <<Msg("game_started", ToRoom(r), "", gameState)>>
         /\ rooms[r].status = "playing"
         /\ rooms[r].gameState = gameState
         /\ rooms[r].hands \in Payloads
         /\ ~rooms[r].isQuickMatch
         /\ Occupied(rooms[r]) = RoomSlots
         /\ \A p \in Positions : rooms[r].players[p].ready /\ rooms[r].players[p].connected

\* The rooms of a store that are playing in the next state and were not in
\* this one.
Starting(rms, rmsNext) ==
    {r \in DOMAIN rmsNext : /\ rmsNext[r].status = "playing"
                            /\ r \in DOMAIN rms => rms[r].status # "playing"}

\* C17 as claimed: the status of a room of either game type becomes playing
\* only in a state where the number of occupied positions equals the room's
\* maxPlayers, which is 4 for every Dhiha Ei room.
C17_PlayingOnlyWhenFull ==
    [][/\ \A r \in Starting(rooms, rooms') :
            r \in DOMAIN rooms /\ Occupied(rooms[r]) = RoomSlots
       /\ \A r \in Starting(digu_rooms, digu_rooms') :
            r \in DOMAIN digu_rooms
            /\ Occupied(digu_rooms[r]) = digu_rooms[r].maxPlayers]_vars

\* C17 as the code has it: the status of a Dhiha Ei room becomes playing only
\* with 4 occupied positions; that of a Digu room with at least 2 and at most
\* maxPlayers occupied positions, whatever maxPlayers is.  In both, every
\* occupied slot is ready.
C17_PlayingOnlyWithEnough ==
    [][/\ \A r \in Starting(rooms, rooms') :
            /\ r \in DOMAIN rooms
            /\ Occupied(rooms[r]) = RoomSlots
            /\ AllReady(rooms[r].players)
       /\ \A r \in Starting(digu_rooms, digu_rooms') :
            /\ r \in DOMAIN digu_rooms
            /\ Occupied(digu_rooms[r]) >= MinPlayersDigu
            /\ Occupied(digu_rooms[r]) <= digu_rooms[r].maxPlayers
            /\ AllReady(digu_rooms[r].players)]_vars

\* A Digu room made for three has just been started by its host with two
\* occupants.
C17_Witness ==
    /\ events > 0
    /\ \E r \in DOMAIN digu_rooms : \E gameState \in Payloads :
         /\ emits = <<Msg("digu_game_started", ToRoom(r), "", gameState)>>
         /\ digu_rooms[r].status = "playing"
         /\ Occupied(digu_rooms[r]) = MinPlayersDigu
         /\ digu_rooms[r].playerCount < digu_rooms[r].maxPlayers

\* C18: in every reachable state every Dhiha Ei room and every Digu room
\* whose status is waiting or confirming has at least one occupied position.
C18_NoEmptyLobby ==
    /\ \A r \in DOMAIN rooms :
         rooms[r].status \in {"waiting", "confirming"} => Occupied(rooms[r]) > 0
    /\ \A r \in DOMAIN digu_rooms :
         digu_rooms[r].status \in {"waiting", "confirming"} =>
             Occupied(digu_rooms[r]) > 0

\* The only occupant of the only room has just left it: the caller is told,
\* nobody else is, and no room and no session remains.
C18_Witness ==
    /\ events = 2
    /\ \E sid \in live : emits = <<Msg("left_room", ToSid(sid), "", 0)>>
    /\ DOMAIN rooms = {}
    /\ DOMAIN digu_rooms = {}
    /\ DOMAIN player_sessions = {}
    /\ matchmaking_queue = <<>>
    /\ digu_matchmaking_queue = <<>>

\* The live connections that own a slot of a playing room of the store, each
\* with the room and the position, whatever their session says.
PlayingOccupants(rms) ==
    {<<sid, r, p>> \in live \X (DOMAIN rms) \X Positions :
        /\ rms[r].status = "playing"
        /\ p \in DOMAIN rms[r].players
        /\ rms[r].players[p].oderId = sid}

\* Room room_id of the store is as before but for the slot at position, which
\* is marked connected:false.
MarkedDropped(rmsNext, rms, room_id, position) ==
    /\ room_id \in DOMAIN rmsNext
    /\ rmsNext[room_id] = [rms[room_id] EXCEPT !.players[position].connected = FALSE]

\* C19: the disconnect of a connection that owns a slot of a playing room of
\* either game type leaves the room in place with the same slots and the same
\* playerCount, that slot marked connected:false, and removes no session but
\* the disconnecting connection's.
C19_DisconnectInPlayingKeepsSlot ==
    /\ \A o \in PlayingOccupants(rooms) :
         LET w == handle_disconnect(World, o[1])
         IN /\ MarkedDropped(w.rooms, rooms, o[2], o[3])
            /\ w.player_sessions = Drop(player_sessions, o[1])
    /\ \A o \in PlayingOccupants(digu_rooms) :
         LET w == handle_disconnect(World, o[1])
         IN /\ MarkedDropped(w.digu_rooms, digu_rooms, o[2], o[3])
            /\ w.player_sessions = Drop(player_sessions, o[1])

\* The connections whose session names a playing room of the store and an
\* occupied position of it, each with the room and the position.
PlayingMembers(rms) ==
    {<<sid, r, p>> \in (live \cap DOMAIN player_sessions) \X (DOMAIN rms) \X Positions :
        /\ player_sessions[sid].roomId = r
        /\ player_sessions[sid].position = p
        /\ rms[r].status = "playing"
        /\ p \in DOMAIN rms[r].players}

\* C20 as claimed: leave_room by a player of a playing room keeps the room
\* and the slot at its position, marked connected:false, with the same
\* playerCount.
C20_LeaveInPlayingKeepsSlot ==
    \A o \in PlayingMembers(rooms) :
        MarkedDropped(handle_leave_room(World, o[1]).rooms, rooms, o[2], o[3])

\* Room room_id of the store has lost the slot at position and counts one
\* player less, or is deleted when that was its last slot.
SlotFreed(rmsNext, rms, room_id, position) ==
    IF DOMAIN rms[room_id].players = {position}
    THEN room_id \notin DOMAIN rmsNext
    ELSE /\ room_id \in DOMAIN rmsNext
         /\ rmsNext[room_id].status = "playing"
         /\ DOMAIN rmsNext[room_id].players = DOMAIN rms[room_id].players \ {position}
         /\ \A q \in DOMAIN rmsNext[room_id].players :
                rmsNext[room_id].players[q] = rms[room_id].players[q]
         /\ rmsNext[room_id].playerCount = rms[room_id].playerCount - 1

\* C20 as the code has it: leave_room by a connection whose session names an
\* occupied position of a playing Dhiha Ei room removes that slot: the
\* position is free, playerCount is one less, the room is deleted when it
\* was the last slot and otherwise the room is sent player_left_game with
\* reason 'left'.  The caller's session is removed and the caller is sent
\* left_room.  leave_digu_room does the same to a Digu room for a caller
\* whose session is a Digu one.
C20_LeaveInPlayingFreesSlot ==
    /\ \A o \in PlayingMembers(rooms) :
         LET w == handle_leave_room(World, o[1])
             said == Msg("player_left_game", ToRoom(o[2]), "left", o[3])
             told == Msg("left_room", ToSid(o[1]), "", 0)
         IN /\ SlotFreed(w.rooms, rooms, o[2], o[3])
            /\ w.player_sessions = Drop(player_sessions, o[1])
            /\ w.emits = IF o[2] \in DOMAIN w.rooms THEN <<said, told>> ELSE <<told>>
    /\ \A o \in PlayingMembers(digu_rooms) :
         player_sessions[o[1]].gameType = "digu" =>
             LET w == handle_leave_digu_room(World, o[1])
             IN /\ SlotFreed(w.digu_rooms, digu_rooms, o[2], o[3])
                /\ w.player_sessions = Drop(player_sessions, o[1])

\* A player of a running game of four has just left it: the three others
\* keep their slots and are told with reason 'left'.
C20_Witness ==
    /\ events > 0
    /\ Len(emits) = 2
    /\ \E sid \in live \ DOMAIN player_sessions : \E r \in DOMAIN rooms :
         /\ emits[1].ev = "player_left_game" /\ emits[1].msg = "left"
         /\ emits[1].to = ToRoom(r)
         /\ emits[2] = Msg("left_room", ToSid(sid), "", 0)
         /\ rooms[r].status = "playing"
         /\ rooms[r].playerCount = RoomSlots - 1
         /\ emits[1].val \notin DOMAIN rooms[r].players
         /\ \A p \in DOMAIN rooms[r].players : rooms[r].players[p].oderId # sid

\* The connections a step has told of a match with the given event.
ToldOfMatch(said, ev) == {m.to[2] : m \in {x \in Range(said) : x.ev = ev}}

\* Every connection just told of a Dhiha Ei match is bound to a confirming
\* quick-match room of four whose slots are all unready and unconfirmed.
DhihaMatchStartsConfirming(w) ==
    \A sid \in ToldOfMatch(w.emits, "match_found") :
        /\ sid \in DOMAIN w.player_sessions
        /\ w.player_sessions[sid].roomId \in DOMAIN w.rooms
        /\ LET room == w.rooms[w.player_sessions[sid].roomId]
           IN /\ room.status = "confirming"
              /\ room.isQuickMatch
              /\ DOMAIN room.players = Positions
              /\ \A p \in Positions : /\ ~room.players[p].ready
                                      /\ ~room.players[p].confirmed

\* The positions of room r whose slot keeps its owner over the step and
\* turns ready in it, the room being a confirming quick-match room before.
TurnedReady(r) ==
    IF r \in DOMAIN rooms' /\ rooms[r].isQuickMatch /\ rooms[r].status = "confirming"
    THEN {p \in DOMAIN rooms[r].players \cap DOMAIN rooms'[r].players :
            /\ rooms'[r].players[p].oderId = rooms[r].players[p].oderId
            /\ ~rooms[r].players[p].ready
            /\ rooms'[r].players[p].ready}
    ELSE {}

\* A room that is confirming becomes waiting only with every occupied slot
\* confirmed.
WaitingOnlyWhenAllConfirmed ==
    \A r \in DOMAIN rooms \cap DOMAIN rooms' :
        (rooms[r].status = "confirming" /\ rooms'[r].status = "waiting") =>
            \A p \in DOMAIN rooms'[r].players : rooms'[r].players[p].confirmed

\* C21 as claimed: a room formed by matchmaking of either game type starts
\* confirming, quick-match, with every slot unready and unconfirmed; while
\* it is confirming a slot turns ready only by its owner's confirm_match;
\* and it becomes waiting only with every occupied slot confirmed.
C21_MatchStartsConfirming ==
    [][/\ DhihaMatchStartsConfirming([rooms |-> rooms', player_sessions |-> player_sessions',
                                      emits |-> emits'])
       /\ \A sid \in ToldOfMatch(emits', "digu_match_found") :
            /\ sid \in DOMAIN player_sessions'
            /\ player_sessions'[sid].roomId \in DOMAIN digu_rooms'
            /\ LET room == digu_rooms'[player_sessions'[sid].roomId]
               IN /\ room.status = "confirming"
                  /\ room.isQuickMatch
                  /\ \A p \in DOMAIN room.players : ~room.players[p].ready
       /\ \A r \in DOMAIN rooms : \A p \in TurnedReady(r) :
            /\ Msg("player_confirmed", ToRoom(r), "", p) \in Range(emits')
            /\ rooms'[r].players[p].confirmed
       /\ WaitingOnlyWhenAllConfirmed]_vars

\* C21 as the code has it: a Dhiha Ei match starts confirming, quick-match,
\* with four unready and unconfirmed slots, and becomes waiting only with
\* every occupied slot confirmed; while it is confirming a slot turns ready
\* in a step of confirm_match or of set_ready (or is moved by swap_player).
\* A Digu match has no confirmation: its room starts waiting, quick-match,
\* with maxPlayers 4 and four slots that are ready.
C21_DhihaConfirmsDiguStartsReady ==
    [][/\ DhihaMatchStartsConfirming([rooms |-> rooms', player_sessions |-> player_sessions',
                                      emits |-> emits'])
       /\ \A sid \in ToldOfMatch(emits', "digu_match_found") :
            /\ sid \in DOMAIN player_sessions'
            /\ player_sessions'[sid].roomId \in DOMAIN digu_rooms'
            /\ LET room == digu_rooms'[player_sessions'[sid].roomId]
               IN /\ room.status = "waiting"
                  /\ room.isQuickMatch
                  /\ room.maxPlayers = DefaultMaxPlayers
                  /\ room.playerCount = MatchSize
                  /\ DOMAIN room.players = Positions
                  /\ \A p \in Positions : room.players[p].ready
       /\ \A r \in DOMAIN rooms : \A p \in TurnedReady(r) :
            \E m \in Range(emits') :
                /\ m.to = ToRoom(r)
                /\ m.ev \in {"player_confirmed", "players_changed"}
       /\ WaitingOnlyWhenAllConfirmed]_vars

\* The fourth connection has just joined the Digu queue: the four are told
\* of the match and sit, ready, in a waiting quick-match room.
C21_Witness ==
    /\ events > 0
    /\ Len(emits) >= MatchSize
    /\ Cardinality(ToldOfMatch(emits, "digu_match_found")) = MatchSize
    /\ \E r \in DOMAIN digu_rooms :
         /\ digu_rooms[r].status = "waiting"
         /\ digu_rooms[r].isQuickMatch
         /\ \A p \in Positions :
              /\ p \in DOMAIN digu_rooms[r].players
              /\ digu_rooms[r].players[p].ready
              /\ digu_rooms[r].players[p].oderId \in ToldOfMatch(emits, "digu_match_found")

AlreadyInRoom(sid) == Err(sid, "Already in a room. Leave first.")

\* sid stands once in queue q, at the tail.
OnceAtTail(q, sid) ==
    /\ q # <<>>
    /\ q[Len(q)] = sid
    /\ Occurrences(q, sid) = 1

\* C22 as claimed: join_queue (join_digu_queue) by a connection with a
\* session is answered with an error and changes nothing; by a connection
\* without one it leaves the caller once in the queue, at the tail.
C22_JoinQueueRejectsBound ==
    \A sid \in live :
        /\ \A w \in handle_join_queue(World, sid) :
             IF sid \in DOMAIN player_sessions
             THEN w = Say(World, AlreadyInRoom(sid))
             ELSE OnceAtTail(w.matchmaking_queue, sid)
        /\ \A w \in handle_join_digu_queue(World, sid) :
             IF sid \in DOMAIN player_sessions
             THEN w = Say(World, AlreadyInRoom(sid))
             ELSE OnceAtTail(w.digu_matchmaking_queue, sid)

\* The queue after an accepted join of sid: the caller's earlier entries are
\* dropped and it is appended; a queue of four or more then loses its first
\* four to a match.
AfterJoin(q, sid) ==
    LET joined == Append(Without(q, sid), sid)
    IN IF Len(joined) >= MatchSize
       THEN SubSeq(joined, MatchSize + 1, Len(joined))
       ELSE joined

\* C22 as the code has it: the caller's earlier entries are removed from the
\* queue before the session is looked at.  A caller with a session is then
\* answered with an error and nothing else changes; a caller without one is
\* appended at the tail, and stands there once unless the queue has reached
\* four entries, whose first four (the caller may be one) are matched at
\* once.
C22_JoinQueueRemovesThenRejects ==
    \A sid \in live :
        /\ \A w \in handle_join_queue(World, sid) :
             IF sid \in DOMAIN player_sessions
             THEN w = Say([World EXCEPT !.matchmaking_queue = Without(@, sid)],
                          AlreadyInRoom(sid))
             ELSE /\ w.matchmaking_queue = AfterJoin(matchmaking_queue, sid)
                  /\ w.digu_matchmaking_queue = digu_matchmaking_queue
                  /\ Len(Without(matchmaking_queue, sid)) < MatchSize - 1 =>
                         /\ OnceAtTail(w.matchmaking_queue, sid)
                         /\ w.rooms = rooms /\ w.player_sessions = player_sessions
        /\ \A w \in handle_join_digu_queue(World, sid) :
             IF sid \in DOMAIN player_sessions
             THEN w = Say([World EXCEPT !.digu_matchmaking_queue = Without(@, sid)],
                          AlreadyInRoom(sid))
             ELSE /\ w.digu_matchmaking_queue = AfterJoin(digu_matchmaking_queue, sid)
                  /\ w.matchmaking_queue = matchmaking_queue
                  /\ Len(Without(digu_matchmaking_queue, sid)) < MatchSize - 1 =>
                         /\ OnceAtTail(w.digu_matchmaking_queue, sid)
                         /\ w.digu_rooms = digu_rooms
                         /\ w.player_sessions = player_sessions

\* The host of a lobby has just been refused by join_queue while three
\* others wait in the queue, which still holds the three.
C22_Witness ==
    /\ events > 1
    /\ \E sid \in live \cap DOMAIN player_sessions :
         /\ emits = <<AlreadyInRoom(sid)>>
         /\ player_sessions[sid].roomId \in DOMAIN rooms
         /\ sid \notin Range(matchmaking_queue)
    /\ Len(matchmaking_queue) = MatchSize - 1
    /\ digu_matchmaking_queue = <<>>

\* World w without its messages.
Silent(w) == [w EXCEPT !.emits = <<>>]

\* Queue after is queue before without every entry that is sid, the other
\* entries in the order they had.
Removed(before, after, sid) ==
    /\ sid \notin Range(after)
    /\ \E keep \in SUBSET (1..Len(before)) :
         /\ keep = {i \in 1..Len(before) : before[i] # sid}
         /\ Len(after) = Cardinality(keep)
         /\ \A i \in keep :
                after[Cardinality({j \in keep : j <= i})] = before[i]

\* C23: leave_queue (leave_digu_queue) by a connection that is not queued
\* changes nothing and sends nothing; by a queued one it removes the caller
\* from the queue, keeps the order of the other entries and changes nothing
\* but that queue; a second call right after the first changes nothing.
C23_LeaveQueueIdempotent ==
    \A sid \in live :
        LET w == handle_leave_queue(World, sid)
            d == handle_leave_digu_queue(World, sid)
        IN /\ sid \notin Range(matchmaking_queue) => w = World
           /\ sid \notin Range(digu_matchmaking_queue) => d = World
           /\ Removed(matchmaking_queue, w.matchmaking_queue, sid)
           /\ Removed(digu_matchmaking_queue, d.digu_matchmaking_queue, sid)
           /\ [Silent(w) EXCEPT !.matchmaking_queue = matchmaking_queue] = World
           /\ [Silent(d) EXCEPT !.digu_matchmaking_queue = digu_matchmaking_queue] = World
           /\ handle_leave_queue(Silent(w), sid) = Silent(w)
           /\ handle_leave_digu_queue(Silent(d), sid) = Silent(d)

\* The second of three queued connections has just left the queue: it is
\* told, and the first and the third are told of a queue of two, in order.
C23_Witness ==
    /\ events > 0
    /\ Len(matchmaking_queue) = MatchSize - 2
    /\ \E sid \in live \ Range(matchmaking_queue) :
         emits = <<Msg("queue_left", ToSid(sid), "", 0),
                   Msg("queue_update", ToSid(matchmaking_queue[1]), "", 2),
                   Msg("queue_update", ToSid(matchmaking_queue[2]), "", 2)>>
    /\ matchmaking_queue[1] < matchmaking_queue[2]
    /\ matchmaking_queue[2] - matchmaking_queue[1] = 2

\* C24: leave_room and leave_digu_room by a connection that has no session
\* change no room, no session and no queue and send nothing.
C24_LeaveWithoutSessionIsNoop ==
    \A sid \in NewConnections :
        /\ handle_leave_room(World, sid) = World
        /\ handle_leave_digu_room(World, sid) = World

\* After the lobby of four has filled, a call has passed without a message
\* while a connection without a session exists and the lobby is as it was.
C24_Witness ==
    /\ script = <<>>
    /\ events = 1
    /\ emits = <<>>
    /\ NewConnections # {}
    /\ DOMAIN digu_rooms = {}
    /\ matchmaking_queue = <<>>
    /\ \E r \in DOMAIN rooms :
         /\ DOMAIN rooms = {r}
         /\ rooms[r].status = "waiting"
         /\ ~rooms[r].isQuickMatch
         /\ DOMAIN rooms[r].players = Positions
         /\ \A p \in Positions :
              /\ rooms[r].players[p].ready
              /\ rooms[r].players[p].oderId \in DOMAIN player_sessions
              /\ player_sessions[rooms[r].players[p].oderId].roomId = r
              /\ player_sessions[rooms[r].players[p].oderId].position = p

\* The connections a step has told of a match with the given event, in the
\* order of the messages, which is the order of match_players.
Taken(said, ev) ==
    LET found == SelectSeq(said, LAMBDA m : m.ev = ev)
    IN [i \in 1..Len(found) |-> found[i].to[2]]

\* The entries that waited before the step and did not arrive anew in it:
\* the queue of the state before, less the caller of an accepted join.
Waiting(q, said, joined_ev) ==
    IF said # <<>> /\ said[1].ev = joined_ev THEN Without(q, said[1].to[2]) ELSE q

\* A step that forms a match takes four entries; they, followed by the
\* entries still queued after the step, are the entries that waited before
\* the step, in their order, followed by those that arrived in the step.
Fifo(q, qNext, said, found_ev, joined_ev) ==
    LET taken == Taken(said, found_ev)
        waited == Waiting(q, said, joined_ev)
        all == taken \o qNext
    IN taken # <<>> =>
          /\ Len(taken) = MatchSize
          /\ Len(waited) <= Len(all)
          /\ SubSeq(all, 1, Len(waited)) = waited

\* C25: every step that forms a match, of either game type, by a join or by
\* the retry after a confirmation timeout, takes the four entries at the
\* head of the queue in their order and leaves the others in their order:
\* nobody is matched while an entry that came earlier still waits, and the
\* players a timeout requeues stand behind the entries that waited already.
C25_MatchTakesQueueHead ==
    [][/\ Fifo(matchmaking_queue, matchmaking_queue', emits',
               "match_found", "queue_joined")
       /\ Fifo(digu_matchmaking_queue, digu_matchmaking_queue', emits',
               "digu_match_found", "digu_queue_joined")]_vars

\* A timeout has just dissolved a match with three confirmed members while
\* another connection waited: the retried match is told to the one that
\* waited first and then to the three requeued, and the queue is empty.
C25_Witness ==
    /\ Len(emits) >= 2 * MatchSize
    /\ emits[1].ev = "match_timeout"
    /\ Len(Taken(emits, "match_cancelled")) = MatchSize - 1
    /\ Len(Taken(emits, "match_found")) = MatchSize
    /\ SubSeq(Taken(emits, "match_found"), 2, MatchSize) = Taken(emits, "match_cancelled")
    /\ Taken(emits, "match_found")[1] \notin Range(Taken(emits, "match_cancelled"))
    /\ Taken(emits, "match_found")[1] # emits[1].to[2]
    /\ matchmaking_queue = <<>>
    /\ \A sid \in Range(Taken(emits, "match_found")) :
         /\ sid \in DOMAIN player_sessions
         /\ player_sessions[sid].roomId \in DOMAIN rooms
         /\ rooms[player_sessions[sid].roomId].status = "confirming"

\* The connections whose session names a Dhiha Ei room.
InRoom == {sid \in live \cap DOMAIN player_sessions :
             player_sessions[sid].roomId \in DOMAIN rooms}

\* C26: the acknowledgements of a room never rest at four positions, and
\* ready_for_round by a connection bound to a room adds the caller's
\* position to them, once however often it is sent; when that makes four
\* distinct positions the room is sent all_ready_for_round and the
\* acknowledgements are empty, otherwise nothing is sent.  Nothing else
\* changes.
C26_ReadyForRoundBarrier ==
    /\ \A r \in DOMAIN rooms :
         /\ rooms[r].readyForRound \subseteq Positions
         /\ Cardinality(rooms[r].readyForRound) < RoomSlots
    /\ \A sid \in InRoom :
         LET r == player_sessions[sid].roomId
             acks == rooms[r].readyForRound \cup {player_sessions[sid].position}
             w == handle_ready_for_round(World, sid)
         IN /\ [w EXCEPT !.emits = <<>>, !.rooms[r].readyForRound = {}]
                 = [World EXCEPT !.rooms[r].readyForRound = {}]
            /\ IF acks = Positions
               THEN /\ w.rooms[r].readyForRound = {}
                    /\ w.emits = <<Msg("all_ready_for_round", ToRoom(r), "", 0)>>
               ELSE /\ w.rooms[r].readyForRound = acks
                    /\ w.emits = <<>>

\* The fourth player of a running game has just acknowledged after the three
\* others: the room is told and its acknowledgements are empty again.
C26_Witness ==
    /\ events > 0
    /\ \E r \in DOMAIN rooms :
         /\ emits = <<Msg("all_ready_for_round", ToRoom(r), "", 0)>>
         /\ rooms[r].status = "playing"
         /\ rooms[r].readyForRound = {}
         /\ rooms[r].playerCount = RoomSlots

\* Between room tables before and after, every room keeps its status, its
\* playerCount and its positions, and every slot that sid does not own is
\* the same; a slot that sid owns differs at most in its ready flag.
OnlyOwnReady(before, after, sid) ==
    /\ DOMAIN after = DOMAIN before
    /\ \A r \in DOMAIN before :
         /\ after[r].status = before[r].status
         /\ after[r].playerCount = before[r].playerCount
         /\ DOMAIN after[r].players = DOMAIN before[r].players
         /\ \A p \in DOMAIN before[r].players :
              IF before[r].players[p].oderId = sid
              THEN [after[r].players[p] EXCEPT !.ready = before[r].players[p].ready]
                       = before[r].players[p]
              ELSE after[r].players[p] = before[r].players[p]

\* C27: set_ready and digu_set_ready change at most the ready flag of slots
\* that the calling connection owns: every other slot of every room of
\* either game type, and every room's status and playerCount, stay as they
\* are.
C27_SetReadyOwnSlotOnly ==
    \A sid \in live : \A ready \in BOOLEAN :
        LET w == handle_set_ready(World, sid, ready)
            d == handle_digu_set_ready(World, sid, ready)
        IN /\ OnlyOwnReady(rooms, w.rooms, sid)
           /\ OnlyOwnReady(digu_rooms, w.digu_rooms, sid)
           /\ OnlyOwnReady(rooms, d.rooms, sid)
           /\ OnlyOwnReady(digu_rooms, d.digu_rooms, sid)

\* C28: a step that creates a room, by create_room, create_digu_room or by
\* match formation of either game type, gives it an id that no room of
\* either table had before the step, and no step replaces the occupant of a
\* position of a Digu room that exists before and after it.
C28_NewRoomIdIsFresh ==
    [][\A r \in RoomIds :
          /\ (r \in DOMAIN rooms' /\ r \notin DOMAIN rooms) => r \notin DOMAIN digu_rooms
          /\ (r \in DOMAIN digu_rooms' /\ r \notin DOMAIN digu_rooms) => r \notin DOMAIN rooms
          /\ (r \in DOMAIN digu_rooms' /\ r \in DOMAIN digu_rooms) =>
                \A p \in DOMAIN digu_rooms[r].players \cap DOMAIN digu_rooms'[r].players :
                    digu_rooms'[r].players[p].oderId = digu_rooms[r].players[p].oderId]_vars

\* C29: in every reachable state a connection that has disconnected has no
\* session and stands in neither matchmaking queue.
C29_DisconnectedStaysUnbound ==
    \A sid \in Sids \ live :
        /\ sid \notin DOMAIN player_sessions
        /\ sid \notin Range(matchmaking_queue)
        /\ sid \notin Range(digu_matchmaking_queue)

\* The connections whose session names no Dhiha Ei room.
Orphans == {sid \in live \cap DOMAIN player_sessions :
              player_sessions[sid].roomId \notin DOMAIN rooms}

\* C30 as claimed: set_ready, swap_player, start_game, card_played,
\* update_game_state, new_round, ready_for_round and confirm_match from a
\* connection without a session, or with a session that names no room,
\* change nothing and send nothing.
C30_StaleEventsIgnored ==
    \A sid \in NewConnections \cup Orphans :
        /\ \A ready \in BOOLEAN : handle_set_ready(World, sid, ready) = World
        /\ \A p \in Positions : handle_swap_player(World, sid, p, sid) = World
        /\ \A g \in Payloads, h \in Payloads :
             /\ handle_start_game(World, sid, g, h) = World
             /\ handle_new_round(World, sid, g, h) = World
             /\ handle_card_played(World, sid, g) = World
             /\ handle_update_game_state(World, sid, g) = World
        /\ handle_ready_for_round(World, sid) = World
        /\ handle_confirm_match(World, sid) = World

\* C30 as the code has it: none of these events changes any state when it
\* comes without a session or with a session that names no room.
\* set_ready, update_game_state, new_round and ready_for_round send nothing.
\* confirm_match always answers the caller with an error.  swap_player and
\* start_game send nothing without a session, but test the position before
\* the room and answer a caller that is not at position 0 with an error.
\* card_played never looks for the room and relays the card to the others
\* of the socket room that the session names.
C30_StaleEventsChangeNothing ==
    /\ \A sid \in NewConnections \cup Orphans :
         /\ \A ready \in BOOLEAN : handle_set_ready(World, sid, ready) = World
         /\ \A g \in Payloads, h \in Payloads :
              /\ handle_new_round(World, sid, g, h) = World
              /\ handle_update_game_state(World, sid, g) = World
         /\ handle_ready_for_round(World, sid) = World
    /\ \A sid \in NewConnections :
         /\ \A p \in Positions : handle_swap_player(World, sid, p, sid) = World
         /\ \A g \in Payloads, h \in Payloads :
              /\ handle_start_game(World, sid, g, h) = World
              /\ handle_card_played(World, sid, g) = World
         /\ handle_confirm_match(World, sid) = Say(World, Err(sid, "Not in a match"))
    /\ \A sid \in Orphans :
         LET session == player_sessions[sid]
             host == session.position = 0
         IN /\ \A p \in Positions : \A first \in Firsts(sid, p) :
                 handle_swap_player(World, sid, p, first) =
                     IF host THEN World
                     ELSE Say(World, Err(sid, "Only host can assign teams"))
            /\ \A g \in Payloads, h \in Payloads :
                 /\ handle_start_game(World, sid, g, h) =
                        IF host THEN World
                        ELSE Say(World, Err(sid, "Only host can start the game"))
                 /\ handle_card_played(World, sid, g) =
                        Say(World, Msg("remote_card_played",
                                       ToOthers(session.roomId, sid), "", g))
            /\ handle_confirm_match(World, sid) = Say(World, Err(sid, "Match not found"))

\* A connection without a session has just sent confirm_match while a match
\* of four others is confirming: it is answered 'Not in a match'.
C30_Witness ==
    /\ events > 0
    /\ \E sid \in NewConnections : emits = <<Err(sid, "Not in a match")>>
    /\ \E r \in DOMAIN rooms :
         /\ rooms[r].status = "confirming"
         /\ Occupied(rooms[r]) = MatchSize

\* World w differs from the current one at most in the gameState and the
\* hands of room r and in its messages.
OnlySnapshot(w, r) ==
    [w EXCEPT !.emits = <<>>,
              !.rooms[r].gameState = rooms[r].gameState,
              !.rooms[r].hands = rooms[r].hands] = World

\* C31: update_game_state(g) by a connection whose session names a Dhiha Ei
\* room stores g as the room's gameState; new_round(g, h) by such a
\* connection at position 0 stores g and h as gameState and hands; new_round
\* by one at another position changes nothing and sends nothing.  No other
\* field, room or session changes.
C31_SnapshotsAreStored ==
    \A sid \in InRoom : \A g \in Payloads, h \in Payloads :
        LET r == player_sessions[sid].roomId
            u == handle_update_game_state(World, sid, g)
            n == handle_new_round(World, sid, g, h)
        IN /\ u.rooms[r].gameState = g
           /\ u.rooms[r].hands = rooms[r].hands
           /\ OnlySnapshot(u, r)
           /\ IF player_sessions[sid].position = 0
              THEN /\ n.rooms[r].gameState = g
                   /\ n.rooms[r].hands = h
                   /\ OnlySnapshot(n, r)
                   /\ n.emits = <<Msg("round_started", ToRoom(r), "", g)>>
              ELSE n = World

\* A member of a lobby that was never started has just sent a game state:
\* the others are sent it and the room, which had none, stores it.
C31_Witness ==
    /\ events > 0
    /\ \E sid \in InRoom : \E g \in Payloads :
         LET r == player_sessions[sid].roomId
         IN /\ emits = <<Msg("game_state_updated", ToOthers(r, sid), "", g)>>
            /\ rooms[r].gameState = g
            /\ rooms[r].hands = None
            /\ rooms[r].status = "waiting"
            /\ Occupied(rooms[r]) = RoomSlots

\* The confirming rooms whose timer is pending.
Timed == {r \in DOMAIN rooms : rooms[r].status = "confirming" /\ timers[r] > 0}

\* The callback's two loops send the messages that the callback as a whole
\* sends first, and leave the sessions and the queue that it works on.
EmissionsAreTheCallbacks(r) ==
    LET es == confirmation_timeout_emissions(World, r)
    IN \A w \in handle_confirmation_timeout_NoRetry(World, r) :
         /\ Len(es) <= Len(w.emits)
         /\ \A i \in 1..Len(es) : es[i].m = w.emits[i]

\* C32, for the recovery after a confirmation timeout: at the moment
\* match_timeout or match_cancelled is sent to a player the player's session
\* is removed already, the dissolved room exists no longer, and a player
\* told that it is requeued stands in the queue.
C32_NotifiedAfterCommit ==
    \A r \in Timed :
        /\ EmissionsAreTheCallbacks(r)
        /\ LET es == confirmation_timeout_emissions(World, r)
           IN \A i \in 1..Len(es) :
                LET sid == es[i].m.to[2]
                    at == es[i].at
                IN /\ sid \notin DOMAIN at.player_sessions
                   /\ r \notin DOMAIN at.rooms
                   /\ es[i].m.ev = "match_cancelled" =>
                          sid \in Range(at.matchmaking_queue)

\* The room ids whose timer is pending while the room is gone or is not
\* confirming.
Resolved == {r \in RoomIds : /\ timers[r] > 0
                             /\ r \in DOMAIN rooms => rooms[r].status # "confirming"}

\* C33: the callback of a timer whose room is gone or is no longer
\* confirming changes no room, no session and no queue and sends nothing;
\* it only removes the room's id from the timeout table.
C33_LateTimeoutIsIgnored ==
    \A r \in Resolved :
        handle_confirmation_timeout(World, r) =
            {[World EXCEPT !.match_timeouts = @ \ {r}]}

\* The four players of a match, three of them confirmed, have all
\* disconnected, which deleted the room, and the timer has since fired: no timer is pending, the timeout
\* table is empty, and the fifth connection was told nothing.
C33_Witness ==
    /\ script = <<>>
    /\ events = 0
    /\ Cardinality(live) = NumSids - MatchSize
    /\ DOMAIN rooms = {}
    /\ DOMAIN player_sessions = {}
    /\ matchmaking_queue = <<>>
    /\ match_timeouts = {}
    /\ \A r \in RoomIds : timers[r] = 0
    /\ emits = <<>>

\* The threads of one operation, and the states no thread is running in.
ThreadsOf(op) == {t \in DOMAIN threads : threads[t].op = op}

Settled == \A t \in DOMAIN threads : threads[t].pc = "done"

\* C34: with the statements of concurrent handler threads interleaved, two
\* join_room threads on one waiting room are never given the same position,
\* and once the threads have ended every session names a slot of its room
\* that its connection owns and every room's playerCount is the number of
\* its slots.
C34_ConcurrentJoinsKeepPositions ==
    /\ \A t, u \in ThreadsOf("join_room") :
          (t # u /\ threads[t].room = threads[u].room /\ threads[t].pos # -1)
              => threads[t].pos # threads[u].pos
    /\ Settled =>
          /\ \A sid \in DOMAIN player_sessions :
                LET session == player_sessions[sid] IN
                /\ session.roomId \in DOMAIN rooms
                /\ session.position \in DOMAIN rooms[session.roomId].players
                /\ rooms[session.roomId].players[session.position].oderId = sid
          /\ \A r \in DOMAIN rooms :
                rooms[r].playerCount = Cardinality(DOMAIN rooms[r].players)

\* all_confirmed was sent to the socket room.
Announced(room_id) ==
    \E i \in 1..Len(emits) : emits[i] = Msg("all_confirmed", ToRoom(room_id), "", 0)

\* The timer thread of the room has evicted or requeued its players.
Dissolved(room_id) ==
    \E t \in ThreadsOf("timeout") :
        /\ threads[t].room = room_id
        /\ threads[t].pc \in {"delete", "retry", "cleanup", "done"}
        /\ threads[t].list \o threads[t].more # <<>>

\* C35: with the timeout callback on its own thread beside a confirm_match
\* thread, no room is both announced as confirmed by all (all_confirmed
\* sent) and dissolved by the callback (players evicted or requeued).
C35_ConfirmedXorDissolved ==
    \A room_id \in RoomIds : ~(Announced(room_id) /\ Dissolved(room_id))

\* The rooms that hold a slot of the connection.
RoomsOf(sid) ==
    {r \in DOMAIN rooms : \E p \in DOMAIN rooms[r].players : rooms[r].players[p].oderId = sid}

\* The connections whose join_queue thread appended an entry and ended,
\* with no leave_queue thread of theirs in flight.
Joined ==
    {threads[t].sid : t \in {u \in ThreadsOf("join_queue") :
        /\ threads[u].pc = "done"
        /\ \E i \in 1..Len(emits) : /\ emits[i].ev = "queue_joined"
                                    /\ emits[i].to = ToSid(threads[u].sid)}}
        \ {threads[t].sid : t \in ThreadsOf("leave_queue")}

\* No connection holds slots of two rooms.
MatchedOnce == \A sid \in Sids : Cardinality(RoomsOf(sid)) <= 1

\* Once the threads have ended, every connection whose join was accepted
\* stands in the queue or holds a slot of a room.
NoJoinLost ==
    Settled => \A sid \in Joined : sid \in Range(matchmaking_queue) \/ RoomsOf(sid) # {}

\* C36: with the threads of the matchmaking queue interleaved, no queued
\* connection is put into two matches and no accepted join is lost.
C36_QueueEntriesMatchedOnce == MatchedOnce /\ NoJoinLost

\* The room keeps its status, or leaves 'confirming' for something other
\* than 'playing', and a playing room stays playing while it exists.
StatusStep(r) ==
    (r \in DOMAIN rooms /\ r \in DOMAIN rooms') =>
        /\ (rooms[r].isQuickMatch /\ rooms[r].status = "confirming")
               => rooms'[r].status # "playing"
        /\ rooms[r].status = "playing" => rooms'[r].status = "playing"

\* C37: no step moves a quick-match room from confirming directly to
\* playing, whatever ready flags were set during the confirmation phase, and
\* no step changes the status of a playing room.
C37_PlayingOnlyAfterAllConfirmed ==
    [][\A r \in RoomIds : StatusStep(r)]_vars

\* The connections that own a slot of the room while their session names
\* another room.
BoundElsewhere(r) ==
    {sid \in DOMAIN player_sessions :
        /\ player_sessions[sid].roomId # r
        /\ \E p \in DOMAIN rooms[r].players : rooms[r].players[p].oderId = sid}

\* C38: the timeout callback of a confirming room leaves alone the session
\* of a matched player that has meanwhile bound itself to another room: the
\* session and that room stay as they are and the player is not put into the
\* queue.
C38_TimeoutSparesReboundSessions ==
    \A r \in Timed :
        \A w \in handle_confirmation_timeout([World EXCEPT !.timers[r] = @ - 1], r) :
            \A sid \in BoundElsewhere(r) :
                LET session == player_sessions[sid] IN
                /\ sid \in DOMAIN w.player_sessions
                /\ w.player_sessions[sid] = session
                /\ (session.gameType = "dhihaei" /\ session.roomId \in DOMAIN rooms)
                       => /\ session.roomId \in DOMAIN w.rooms
                          /\ w.rooms[session.roomId] = rooms[session.roomId]
                /\ sid \in Range(w.matchmaking_queue) => sid \in Range(matchmaking_queue)

\* C39: between handler runs each matchmaking queue holds fewer entries
\* than a match takes: a join or a timeout requeue that brings a queue to
\* four or more entries forms a match before it ends.
C39_QueuesBelowMatchSize ==
    /\ Len(matchmaking_queue) < MatchSize
    /\ Len(digu_matchmaking_queue) < MatchSize

\* The timer of a match with three confirmations has fired while a fifth
\* connection waited in the queue: the three were requeued behind it, which
\* made four entries, and the callback's retry formed a new match of them.
C39_Witness ==
    /\ \E i, j \in 1..Len(emits) : /\ i < j
                                   /\ emits[i].ev = "match_cancelled"
                                   /\ emits[j].ev = "match_found"
    /\ matchmaking_queue = <<>>
    /\ \E r \in DOMAIN rooms : /\ rooms[r].status = "confirming"
                               /\ Len(rooms[r].matched) = MatchSize
                               /\ \A p \in Positions : ~rooms[r].players[p].confirmed

\* The events that carry playersNeeded.
QueueStatusEvents == {"queue_joined", "queue_update", "digu_queue_joined", "digu_queue_update"}

====
